---- MODULE Spec2Model ----
(***************************************************************************)
(* Book curation and publication workflow of the BookShook admin API       *)
(* (src/src/routes/admin.ts): validation gates, tag / axes / evidence /    *)
(* cover edits, publish preview and the publish handler with its           *)
(* transaction, over the shared relational store.                          *)
(*                                                                         *)
(* One book of the catalog is followed.  Every variable named after a      *)
(* table holds the rows of that table that belong to the book.             *)
(***************************************************************************)
EXTENDS Integers, Sequences, FiniteSets, Bags, TLC

\* ------------------------------------------------------------------------
\* Bounds of the model
\* ------------------------------------------------------------------------
MaxPublications == 2
MaxEvidence == 1
MaxCoverVersions == 2
MaxEdits == 3

\* ------------------------------------------------------------------------
\* Reference data: rows of the tags / tag_categories tables
\* ------------------------------------------------------------------------
Null == "null"

requiredAxes == <<"worldFramework", "pairing", "heatLevel", "seriesStatus", "consentMode">>

AxisNames == {requiredAxes[i] : i \in 1..Len(requiredAxes)}

CATEGORY_CAPS == [trope |-> 8, plot_engine |-> 2, setting_wrapper |-> 2, seasonal_wrapper |-> 1]

\* Rows of the tags table joined with tag_categories.single_select: rows of the
\* taxonomy seed, and cw_noncon, a tag created by approving a create_new
\* proposal with the slug "non-consent". requires_evidence is the column the
\* handlers select (t.requires_evidence); the store holds its value per tag.
TagTable ==
  [ wf_contemporary |-> [category |-> "world_framework", slug |-> "contemporary",
                         name |-> "Contemporary", requires_evidence |-> FALSE, single_select |-> TRUE],
    pr_mf           |-> [category |-> "pairing", slug |-> "mf",
                         name |-> "M/F", requires_evidence |-> FALSE, single_select |-> TRUE],
    hl_3            |-> [category |-> "heat_level", slug |-> "hl_3",
                         name |-> "HL_3 Steamy", requires_evidence |-> FALSE, single_select |-> TRUE],
    ss_standalone   |-> [category |-> "series_status", slug |-> "standalone",
                         name |-> "Standalone", requires_evidence |-> FALSE, single_select |-> TRUE],
    cm_negotiated   |-> [category |-> "consent_mode", slug |-> "negotiated",
                         name |-> "Negotiated", requires_evidence |-> FALSE, single_select |-> TRUE],
    cm_dubious      |-> [category |-> "consent_mode", slug |-> "dubious",
                         name |-> "Dubious", requires_evidence |-> FALSE, single_select |-> TRUE],
    cw_noncon       |-> [category |-> "content_warning", slug |-> "non-consent",
                         name |-> "Non-Consent", requires_evidence |-> TRUE, single_select |-> FALSE],
    cw_death        |-> [category |-> "content_warning", slug |-> "death_on_page",
                         name |-> "Death on Page", requires_evidence |-> TRUE, single_select |-> FALSE],
    tr_enemies      |-> [category |-> "trope", slug |-> "enemies_to_lovers",
                         name |-> "Enemies to Lovers", requires_evidence |-> FALSE, single_select |-> FALSE],
    \* seeded rows whose slugs are spelled with an underscore
    cm_clear_explicit |-> [category |-> "consent_mode", slug |-> "clear_explicit",
                         name |-> "Clear/Explicit", requires_evidence |-> FALSE, single_select |-> TRUE],
    cw_non_consent  |-> [category |-> "content_warning", slug |-> "non_consent",
                         name |-> "Non-Consent (seed)", requires_evidence |-> TRUE, single_select |-> FALSE],
    \* tags created by approving create_new proposals
    cm_clear        |-> [category |-> "consent_mode", slug |-> "clear-explicit",
                         name |-> "Clear Explicit", requires_evidence |-> FALSE, single_select |-> TRUE],
    cw_dubcon       |-> [category |-> "content_warning", slug |-> "dubcon",
                         name |-> "Dubcon", requires_evidence |-> FALSE, single_select |-> FALSE],
    tr_noncon       |-> [category |-> "trope", slug |-> "noncon",
                         name |-> "Noncon", requires_evidence |-> FALSE, single_select |-> FALSE],
    \* seeded rows of a capped category (plot_engine) and a second heat level
    pe_suspense     |-> [category |-> "plot_engine", slug |-> "suspense_investigation",
                         name |-> "Suspense / Investigation", requires_evidence |-> FALSE, single_select |-> FALSE],
    pe_mystery      |-> [category |-> "plot_engine", slug |-> "mystery_whodunit",
                         name |-> "Mystery / Whodunit", requires_evidence |-> FALSE, single_select |-> FALSE],
    pe_action       |-> [category |-> "plot_engine", slug |-> "action_survival",
                         name |-> "Action / Survival", requires_evidence |-> FALSE, single_select |-> FALSE],
    pe_heist        |-> [category |-> "plot_engine", slug |-> "heist_crime",
                         name |-> "Heist / Crime", requires_evidence |-> FALSE, single_select |-> FALSE],
    hl_4            |-> [category |-> "heat_level", slug |-> "hl_4",
                         name |-> "HL_4 Hot", requires_evidence |-> FALSE, single_select |-> TRUE],
    sw_christmas    |-> [category |-> "seasonal_wrapper", slug |-> "christmas",
                         name |-> "Christmas", requires_evidence |-> FALSE, single_select |-> FALSE] ]

TagIds == DOMAIN TagTable

\* Tags a curator attaches through POST /books/:id/tags in this model.
AttachableTags == {"cw_noncon", "tr_enemies"}

\* Request bodies of PUT /books/:id/axes explored by the model (absent keys
\* are the axes the body omits).
AxesPayloads ==
  { [worldFramework |-> "wf_contemporary", pairing |-> "pr_mf", heatLevel |-> "hl_3",
     seriesStatus |-> "ss_standalone", consentMode |-> "cm_negotiated"],
    [consentMode |-> "cm_dubious"],
    [worldFramework |-> "wf_contemporary", consentMode |-> Null] }

\* Publish requests that may be in flight at the same time
Requests == {"r1", "r2"}

Curator == "curator"

\* Rows of tag_proposals for the book: an assign_existing proposal, and a
\* create_new proposal whose (category, slug) the INSERT INTO tags resolves to
\* the tag named here.
ProposalTable ==
  [ p1 |-> [proposal_type |-> "assign_existing", tag_id |-> "pe_action"],
    p2 |-> [proposal_type |-> "create_new", tag_id |-> "pe_heist"] ]

\* Rows of author_tag_submissions for the book
SubmissionTable == [ s1 |-> [tag_id |-> "pe_mystery"] ]

\* ------------------------------------------------------------------------
\* State
\* ------------------------------------------------------------------------
VARIABLES
  book,               \* the books row: status, is_published, live pointer, stamps
  book_axes,          \* the book_axes row: axis name -> tag id or Null
  book_tags,          \* set of tag ids attached to the book
  evidence,           \* evidence id -> set of evidence_links rows, for the evidence rows present
  nextEvidenceId,     \* ids handed out by INSERT INTO evidence ... RETURNING id
  book_assets,        \* cover assets: sequence indexed by version, each its state
  book_publications,  \* publication rows in published_at order
  events,             \* audit log: bag of events rows (no handler reads their order)
  taxonomy_active,    \* whether a taxonomy_versions row has is_active = TRUE
  req,                \* per in-flight publish request: position and locals
  call,               \* arguments of a direct call of computeValidation (NoCall: none)
  resp,               \* response of the most recent step (NoResponse if it sent none)
  tag_proposals,      \* proposal id -> status of the tag_proposals row
  author_tag_submissions, \* submission id -> status of the author_tag_submissions row
  books,              \* rows of books in the catalog: id, title, slug, status, asin
  authors,            \* rows of authors: id, name
  book_authors,       \* rows of book_authors: book_id, author_id
  book_identifiers,   \* rows of book_identifiers: book_id, asin, isbn13
  book_axes_rows,     \* book ids that have a book_axes row
  book_metadata,      \* book ids that have a book_metadata row
  author_book_intakes, \* intake id -> status, admin_notes, created_book_id of the row
  book_tags_rows,     \* rows of book_tags of the catalog's books: book_id, tag_id
  deciding,           \* per in-flight intake decision: position and locals
  RATE_LIMIT,         \* the KV namespace: key -> stored response
  creating            \* per in-flight create-book request: position and locals

storeVars == <<book, book_axes, book_tags, evidence, nextEvidenceId, book_assets,
               book_publications, events, taxonomy_active>>

vars == <<book, book_axes, book_tags, evidence, nextEvidenceId, book_assets,
          book_publications, events, taxonomy_active, req, call, resp,
          tag_proposals, author_tag_submissions,
          books, authors, book_authors, book_identifiers, book_axes_rows,
          book_metadata,
          author_book_intakes, book_tags_rows, deciding, RATE_LIMIT, creating>>

\* the author portal's intake table, the tags of the catalog's books, the KV
\* namespace and the requests in flight on them
portalVars == <<author_book_intakes, book_tags_rows, deciding, RATE_LIMIT, creating>>

\* the catalog tables written by book creation
catalogVars == <<books, authors, book_authors, book_identifiers, book_axes_rows,
                 book_metadata>>

\* the community tables: tag proposals and author tag submissions for the book
communityVars == <<tag_proposals, author_tag_submissions>>

NoResponse == [op |-> "none", status |-> 0]

IdleRequest == [pc |-> "idle"]

NoCall == [fn |-> "none"]

\* no other book in the catalog
EmptyCatalog ==
  /\ books = {}
  /\ authors = {}
  /\ book_authors = {}
  /\ book_identifiers = {}
  /\ book_axes_rows = {}
  /\ book_metadata = {}

\* one intake awaits its decision; nothing cached, no request in flight
InitPortal ==
  /\ author_book_intakes =
       [i \in {"i1"} |-> [status |-> "pending", admin_notes |-> Null, created_book_id |-> 0]]
  /\ book_tags_rows = {}
  /\ deciding = [r \in Requests |-> IdleRequest]
  /\ RATE_LIMIT = <<>>
  /\ creating = [r \in Requests |-> IdleRequest]

\* the proposals and submissions for the book await their decision
InitCommunity ==
  /\ tag_proposals = [p \in DOMAIN ProposalTable |-> "pending"]
  /\ author_tag_submissions = [x \in DOMAIN SubmissionTable |-> "pending"]

Init ==
  /\ book = [status |-> "draft", is_published |-> FALSE,
             last_published_publication_id |-> 0,
             first_published_at |-> 0, last_published_at |-> 0]   \* 0 is NULL
  /\ book_axes = [a \in AxisNames |-> Null]
  /\ book_tags = {}
  /\ evidence = <<>>
  /\ nextEvidenceId = 1
  /\ book_assets = <<>>
  /\ book_publications = <<>>
  /\ events = EmptyBag
  /\ taxonomy_active \in BOOLEAN
  /\ req = [r \in Requests |-> IdleRequest]
  /\ call = NoCall
  /\ resp = NoResponse
  /\ InitCommunity
  /\ InitPortal
  /\ EmptyCatalog

\* INSERT INTO events (entity_type, entity_id, event_type, actor_id, diff_json)
LogEvent(log, type, entity, id, diff) ==
  log (+) SetToBag({[event_type |-> type, entity_type |-> entity, entity_id |-> id,
                     actor_id |-> Curator, diff_json |-> diff]})

\* Number of rows of the audit log with the given event type
EventCount(log, type) ==
  BagCardinality([e \in {x \in BagToSet(log) : x.event_type = type} |-> log[e]])

\* The model follows at most MaxEdits logged edits of the book.
CanLog == BagCardinality(events) - EventCount(events, "PUBLISHED") < MaxEdits

\* ------------------------------------------------------------------------
\* Validation Engine
\* ------------------------------------------------------------------------
\* A JS property read that is truthy: an absent property is undefined.
Truthy(row, field) == field \in DOMAIN row /\ row[field] = TRUE

\* tags[category] of the grouped tag map
TagsOf(tags, category) == {t \in tags : t.category = category}

\* Variant: the link's targetType is not looked at
HasLinkedEvidenceAnyTarget(evidenceRows, t) ==
  \E e \in evidenceRows :
    /\ "links" \in DOMAIN e
    /\ \E l \in e.links : l.targetId = t.id

\* evidence.some(e => e.links?.some(l => l.targetType === 'tag' && l.targetId === t.id))
HasLinkedEvidence(evidenceRows, t) ==
  \E e \in evidenceRows :
    /\ "links" \in DOMAIN e
    /\ \E l \in e.links : l.targetType = "tag" /\ l.targetId = t.id

\* assets.cover?.state === 'ready'   (assets.cover is a list of at most one row)
CoverOk(assets) ==
  /\ Len(assets.cover) > 0
  /\ "state" \in DOMAIN assets.cover[1]
  /\ assets.cover[1].state = "ready"

NonConSlugs == {"non-consent", "noncon", "dubious-consent", "dubcon", "sexual-assault"}

\* Variant: only the hyphenated clear-explicit slug counts as clear consent
ClearConsentSlugsWithoutNegotiated == {"clear-explicit"}

ClearConsentSlugs == {"clear-explicit", "negotiated"}

computeValidation(axes, tags, evidenceRows, assets) ==
  LET missingAxes == {a \in AxisNames : axes[a] = Null}
      highStakesTags == {t \in tags : Truthy(t, "requiresEvidence")}
      tagsWithoutEvidence == {t \in highStakesTags : ~HasLinkedEvidence(evidenceRows, t)}
      evidenceGate ==
        IF tagsWithoutEvidence # {}
          THEN <<[id |-> "REQ_EVIDENCE", ok |-> FALSE,
                  missing |-> {t.name : t \in tagsWithoutEvidence}]>>
        ELSE IF highStakesTags # {}
          THEN <<[id |-> "REQ_EVIDENCE", ok |-> TRUE, missing |-> {}]>>
        ELSE <<>>
      gates ==
        <<[id |-> "REQ_AXES", ok |-> missingAxes = {}, missing |-> missingAxes],
          [id |-> "REQ_COVER", ok |-> CoverOk(assets), missing |-> {}]>> \o evidenceGate
      hasNonCon == \E t \in TagsOf(tags, "content_warning") : t.slug \in NonConSlugs
      contradictions ==
        IF /\ axes.consentMode # Null
           /\ TagTable[axes.consentMode].slug \in ClearConsentSlugs
           /\ hasNonCon
          THEN <<[ruleId |-> "CONSENT_WARNING_MISMATCH", severity |-> "hard"]>>
          ELSE <<>>
      caps == [c \in DOMAIN CATEGORY_CAPS |->
                 [count |-> Cardinality(TagsOf(tags, c)), max |-> CATEGORY_CAPS[c],
                  ok |-> Cardinality(TagsOf(tags, c)) <= CATEGORY_CAPS[c]]]
      queues ==
        [unfinished |-> (\E i \in 1..Len(gates) : ~gates[i].ok /\ gates[i].id = "REQ_AXES")
                           \/ Len(assets.cover) = 0,
         needsEvidence |-> \E i \in 1..Len(gates) : ~gates[i].ok /\ gates[i].id = "REQ_EVIDENCE",
         contradiction |-> \E i \in 1..Len(contradictions) : contradictions[i].severity = "hard"]
  IN [gates |-> gates, contradictions |-> contradictions, caps |-> caps, queues |-> queues]

\* validation.gates.filter(g => !g.ok)
FailedGates(validation) == SelectSeq(validation.gates, LAMBDA g : ~g.ok)

\* validation.contradictions.filter(c => c.severity === 'hard')
HardContradictions(validation) ==
  SelectSeq(validation.contradictions, LAMBDA c : c.severity = "hard")

\* ------------------------------------------------------------------------
\* Reads of the book's rows
\* ------------------------------------------------------------------------
\* Highest version whose state is 'ready', 0 when there is none
\* (... AND state = 'ready' ORDER BY version DESC LIMIT 1).
ReadyCoverVersion ==
  LET ready == {v \in 1..Len(book_assets) : book_assets[v] = "ready"}
  IN IF ready = {} THEN 0 ELSE CHOOSE v \in ready : \A w \in ready : w <= v

\* ------------------------------------------------------------------------
\* Curator edits
\* ------------------------------------------------------------------------
\* POST /books/:id/tags
AddTag(t) ==
  LET tag == TagTable[t]
      capped == tag.category \in DOMAIN CATEGORY_CAPS
      count == Cardinality({x \in book_tags : TagTable[x].category = tag.category})
  IN IF capped /\ count >= CATEGORY_CAPS[tag.category]
       THEN /\ resp' = [op |-> "addTag", status |-> 400, error |-> "cap_exceeded"]
            /\ UNCHANGED <<storeVars, req, call, communityVars, catalogVars, portalVars>>
       ELSE /\ book_tags' =
                 (IF tag.single_select
                    THEN {x \in book_tags : TagTable[x].category # tag.category}
                    ELSE book_tags) \cup {t}
            /\ resp' = [op |-> "addTag", status |-> 200]
            /\ UNCHANGED <<book, book_axes, evidence, nextEvidenceId, book_assets,
                           book_publications, events, taxonomy_active, req, call, communityVars, catalogVars, portalVars>>

\* DELETE /books/:id/tags/:tagId
RemoveTag(t) ==
  /\ CanLog
  /\ book_tags' = book_tags \ {t}
  /\ events' = LogEvent(events, "TAG_REMOVED", "book_tag", 0, <<t>>)
  /\ resp' = [op |-> "removeTag", status |-> 200]
  /\ UNCHANGED <<book, book_axes, evidence, nextEvidenceId, book_assets,
                 book_publications, taxonomy_active, req, call, communityVars, catalogVars, portalVars>>

\* Variant: a null sent for an axis overwrites the stored reference
CoalesceAxisNullOverwrites(payload, a, old) ==
  IF a \in DOMAIN payload THEN payload[a] ELSE old

\* COALESCE(${parsed.data.<axis>}::uuid, book_axes.<axis>_tag_id)
CoalesceAxis(payload, a, old) ==
  IF a \in DOMAIN payload /\ payload[a] # Null THEN payload[a] ELSE old

\* PUT /books/:id/axes (the book_axes row exists: ON CONFLICT DO UPDATE)
UpdateAxes(payload) ==
  /\ CanLog
  /\ book_axes' = [a \in AxisNames |-> CoalesceAxis(payload, a, book_axes[a])]
  /\ events' = LogEvent(events, "AXES_UPDATED", "book_axes", 0, <<>>)
  /\ resp' = [op |-> "updateAxes", status |-> 200]
  /\ UNCHANGED <<book, book_tags, evidence, nextEvidenceId, book_assets,
                 book_publications, taxonomy_active, req, call, communityVars, catalogVars, portalVars>>

TagLink(t) == [targetType |-> "tag", targetId |-> t]

\* POST /books/:id/evidence
CreateEvidence(links) ==
  /\ CanLog
  /\ nextEvidenceId <= MaxEvidence
  /\ evidence' = [e \in DOMAIN evidence \cup {nextEvidenceId} |->
                    IF e = nextEvidenceId THEN links ELSE evidence[e]]
  /\ nextEvidenceId' = nextEvidenceId + 1
  /\ events' = LogEvent(events, "EVIDENCE_CREATED", "evidence", nextEvidenceId, <<>>)
  /\ resp' = [op |-> "createEvidence", status |-> 200, id |-> nextEvidenceId]
  /\ UNCHANGED <<book, book_axes, book_tags, book_assets,
                 book_publications, taxonomy_active, req, call, communityVars, catalogVars, portalVars>>

\* DELETE /evidence/:id
DeleteEvidence(e) ==
  /\ CanLog
  /\ e \in DOMAIN evidence
  /\ evidence' = [x \in DOMAIN evidence \ {e} |-> evidence[x]]
  /\ events' = LogEvent(events, "EVIDENCE_DELETED", "evidence", e, <<>>)
  /\ resp' = [op |-> "deleteEvidence", status |-> 200]
  /\ UNCHANGED <<book, book_axes, book_tags, nextEvidenceId, book_assets,
                 book_publications, taxonomy_active, req, call, communityVars, catalogVars, portalVars>>

\* POST /evidence/:id/link
LinkEvidence(e, t) ==
  /\ e \in DOMAIN evidence
  /\ evidence' = [evidence EXCEPT ![e] = @ \cup {TagLink(t)}]
  /\ resp' = [op |-> "linkEvidence", status |-> 200]
  /\ UNCHANGED <<book, book_axes, book_tags, nextEvidenceId, book_assets,
                 book_publications, events, taxonomy_active, req, call, communityVars, catalogVars, portalVars>>

\* POST /books/:id/cover: next version = MAX(version) + 1, state 'ready'
UploadCover ==
  /\ CanLog
  /\ Len(book_assets) < MaxCoverVersions
  /\ book_assets' = Append(book_assets, "ready")
  /\ events' = LogEvent(events, "COVER_UPLOADED", "book_assets", 0, <<Len(book_assets) + 1>>)
  /\ resp' = [op |-> "uploadCover", status |-> 200, version |-> Len(book_assets) + 1]
  /\ UNCHANGED <<book, book_axes, book_tags, evidence, nextEvidenceId,
                 book_publications, taxonomy_active, req, call, communityVars, catalogVars, portalVars>>

\* ------------------------------------------------------------------------
\* Publication Engine: POST /books/:id/publish
\* ------------------------------------------------------------------------
\* SELECT t.id, t.category, t.slug, t.name, t.requires_evidence FROM book_tags ...
PublishTagRows ==
  {[id |-> t, category |-> TagTable[t].category, slug |-> TagTable[t].slug,
    name |-> TagTable[t].name, requires_evidence |-> TagTable[t].requires_evidence]
     : t \in book_tags}

\* SELECT * FROM evidence WHERE book_id = ...   (the links live in evidence_links)
PublishEvidenceRows == {[id |-> e] : e \in DOMAIN evidence}

\* SELECT * FROM book_assets WHERE ... state = 'ready' ORDER BY version DESC LIMIT 1
PublishAssetRows ==
  IF ReadyCoverVersion = 0 THEN <<>>
  ELSE <<[version |-> ReadyCoverVersion, state |-> "ready"]>>

InFlight == {r \in Requests : req[r].pc # "idle"}

\* (x?.version || 0) of a list of at most one cover row
CoverVersionOr0(rows) == IF Len(rows) = 0 THEN 0 ELSE rows[1].version

Ids(rows) == {x.id : x \in rows}

\* Variant: the removed tags are filtered from the current list, like the added ones
DiffSummaryRemovedFromCurrent(previousSnapshot, tags, evidenceRows, assetRows) ==
  LET prevTags == Ids(previousSnapshot.tags)
      currTags == Ids(tags)
      addedTags == {id \in currTags : id \notin prevTags}
      removedTags == {id \in currTags : id \notin prevTags}
      prevEvidence == Ids(previousSnapshot.evidence)
      currEvidence == Ids(evidenceRows)
      addedEvidence == {id \in currEvidence : id \notin prevEvidence}
      removedEvidence == {id \in prevEvidence : id \notin currEvidence}
      coverChanged == CoverVersionOr0(assetRows) # CoverVersionOr0(previousSnapshot.assets.cover)
  IN [tags_added |-> Cardinality(addedTags),
      tags_removed |-> Cardinality(removedTags),
      evidence_added |-> Cardinality(addedEvidence),
      evidence_removed |-> Cardinality(removedEvidence),
      cover_changed |-> coverChanged,
      has_changes |-> Cardinality(addedTags) > 0 \/ Cardinality(removedTags) > 0
                        \/ Cardinality(addedEvidence) > 0 \/ Cardinality(removedEvidence) > 0
                        \/ coverChanged]

\* Compute diff summary if this is a re-publish
DiffSummary(previousSnapshot, tags, evidenceRows, assetRows) ==
  LET prevTags == Ids(previousSnapshot.tags)
      currTags == Ids(tags)
      addedTags == {id \in currTags : id \notin prevTags}
      removedTags == {id \in prevTags : id \notin currTags}
      prevEvidence == Ids(previousSnapshot.evidence)
      currEvidence == Ids(evidenceRows)
      addedEvidence == {id \in currEvidence : id \notin prevEvidence}
      removedEvidence == {id \in prevEvidence : id \notin currEvidence}
      coverChanged == CoverVersionOr0(assetRows) # CoverVersionOr0(previousSnapshot.assets.cover)
  IN [tags_added |-> Cardinality(addedTags),
      tags_removed |-> Cardinality(removedTags),
      evidence_added |-> Cardinality(addedEvidence),
      evidence_removed |-> Cardinality(removedEvidence),
      cover_changed |-> coverChanged,
      has_changes |-> Cardinality(addedTags) > 0 \/ Cardinality(removedTags) > 0
                        \/ Cardinality(addedEvidence) > 0 \/ Cardinality(removedEvidence) > 0
                        \/ coverChanged]

\* SELECT ... FROM book_publications ORDER BY published_at DESC LIMIT 1  (0: no row)
LatestPublicationId == Len(book_publications)

\* Variant: the book is marked published before the checks refuse the request
PublishRefuseAfterStatusUpdate(r, response) ==
  /\ resp' = response
  /\ req' = [req EXCEPT ![r] = IdleRequest]
  /\ book' = [book EXCEPT !.status = "published", !.is_published = TRUE]
  /\ UNCHANGED <<book_axes, book_tags, evidence, nextEvidenceId, book_assets,
                 book_publications, events, taxonomy_active, call, communityVars, catalogVars, portalVars>>

\* return badRequest(...) / serverError(...) before the transaction is opened
PublishRefuse(r, response) ==
  /\ resp' = response
  /\ req' = [req EXCEPT ![r] = IdleRequest]
  /\ UNCHANGED <<storeVars, call, communityVars, catalogVars, portalVars>>

\* The handler up to the transaction: load the book's rows, validate them,
\* resolve the taxonomy version, find the previous publication, build the
\* snapshot and the diff summary.  All of it only reads the store.
PublishBegin(r) ==
  /\ req[r].pc = "idle"
  /\ Len(book_publications) + Cardinality(InFlight) < MaxPublications
  /\ LET assetRows == PublishAssetRows
         axes == book_axes
         tags == PublishTagRows
         evidenceRows == PublishEvidenceRows
         validation == computeValidation(axes, tags, evidenceRows, [cover |-> assetRows])
         failedGates == FailedGates(validation)
         hardContradictions == HardContradictions(validation)
         prevId == LatestPublicationId
         snapshot == [assets |-> [cover |-> assetRows], axes |-> axes,
                      tags |-> tags, evidence |-> evidenceRows]
         diffSummary ==
           IF prevId = 0 THEN <<>>
           ELSE <<DiffSummary(book_publications[prevId].snapshot_json,
                              tags, evidenceRows, assetRows)>>
     IN IF Len(failedGates) > 0
          THEN PublishRefuse(r, [op |-> "publish", status |-> 400, request |-> r,
                                 error |-> "validation_failed", gates |-> failedGates])
        ELSE IF Len(hardContradictions) > 0
          THEN PublishRefuse(r, [op |-> "publish", status |-> 400, request |-> r,
                                 error |-> "contradictions",
                                 contradictions |-> hardContradictions])
        ELSE IF ~taxonomy_active
          THEN PublishRefuse(r, [op |-> "publish", status |-> 500, request |-> r,
                                 error |-> "no_active_taxonomy"])
        ELSE /\ req' = [req EXCEPT ![r] = [pc |-> "txn", snapshot |-> snapshot,
                                           previousPublicationId |-> prevId,
                                           diffSummary |-> diffSummary,
                                           isFirstPublish |-> prevId = 0]]
             /\ resp' = NoResponse
             /\ UNCHANGED <<storeVars, call, communityVars, catalogVars, portalVars>>

\* ---- the publish transaction ----
\* The rows the transaction writes, as one value
TxnStore == [publications |-> book_publications, book |-> book, events |-> events]

\* Variant: the transaction re-checks the axes only
TxnRecheckAxesOnly ==
  IF \E a \in AxisNames : book_axes[a] = Null THEN "VALIDATION_FAILED:MISSING_AXES"
  ELSE "ok"

\* Step 1: re-validate inside the transaction (axes, then cover)
TxnRecheck ==
  IF \E a \in AxisNames : book_axes[a] = Null THEN "VALIDATION_FAILED:MISSING_AXES"
  ELSE IF ReadyCoverVersion = 0 THEN "VALIDATION_FAILED:MISSING_COVER"
  ELSE "ok"

\* Variant: an upsert keyed on the book, overwriting its latest publication row
InsertPublicationOverLatest(s, r) ==
  [s EXCEPT !.publications =
     IF Len(@) = 0
       THEN <<[id |-> 1,
               snapshot_json |-> req[r].snapshot,
               published_by |-> Curator,
               previous_publication_id |-> req[r].previousPublicationId,
               diff_summary_json |-> req[r].diffSummary]>>
       ELSE [@ EXCEPT ![Len(@)] =
               [id |-> Len(s.publications),
                snapshot_json |-> req[r].snapshot,
                published_by |-> Curator,
                previous_publication_id |-> req[r].previousPublicationId,
                diff_summary_json |-> req[r].diffSummary]]]

\* Step 2: INSERT INTO book_publications ... RETURNING id
InsertPublication(s, r) ==
  [s EXCEPT !.publications =
     Append(@, [id |-> Len(@) + 1,
                snapshot_json |-> req[r].snapshot,
                published_by |-> Curator,
                previous_publication_id |-> req[r].previousPublicationId,
                diff_summary_json |-> req[r].diffSummary])]

\* BEFORE UPDATE trigger validate_publish_requirements on books
PublishRequirementsTrigger(old, new) ==
  (new.status = "published" /\ old.status # "published")
     => /\ \A a \in AxisNames : book_axes[a] # Null
        /\ ReadyCoverVersion # 0

\* Step 3: UPDATE books SET status = 'published', ...
UpdateBookPublished(s, publicationId) ==
  [s EXCEPT !.book =
     [status |-> "published",
      is_published |-> TRUE,
      last_published_publication_id |-> publicationId,
      first_published_at |-> IF @.first_published_at # 0 THEN @.first_published_at
                             ELSE publicationId,
      last_published_at |-> publicationId]]

\* Step 4: INSERT INTO events (... 'PUBLISHED' ...)
InsertPublishedEvent(s, r, publicationId) ==
  [s EXCEPT !.events =
     LogEvent(@, "PUBLISHED", "publication", publicationId,
              <<[is_republish |-> ~req[r].isFirstPublish,
                 previous_publication_id |-> req[r].previousPublicationId,
                 diff_summary |-> req[r].diffSummary]>>)]

\* Variant: the statements run outside a transaction, so what was written stays
RollbackKeepsPartial(before, partial) == partial

\* db.transaction: what is in the store after the callback threw
Rollback(before, partial) == before

StoreFaults == {"none", "insert_publication", "update_book", "insert_event"}

\* The callback of db.transaction, run against the store as it is now;
\* fault names the statement at which the store fails, if any.
RunTransaction(r, fault) ==
  LET s0 == TxnStore
      s2 == InsertPublication(s0, r)
      publicationId == Len(s2.publications)
      s3 == UpdateBookPublished(s2, publicationId)
      s4 == InsertPublishedEvent(s3, r, publicationId)
  IN IF TxnRecheck # "ok"
       THEN [thrown |-> TxnRecheck, store |-> Rollback(s0, s0), publicationId |-> 0]
     ELSE IF fault = "insert_publication"
       THEN [thrown |-> "store error", store |-> Rollback(s0, s0), publicationId |-> 0]
     ELSE IF fault = "update_book" \/ ~PublishRequirementsTrigger(s2.book, s3.book)
       THEN [thrown |-> "store error", store |-> Rollback(s0, s2), publicationId |-> 0]
     ELSE IF fault = "insert_event"
       THEN [thrown |-> "store error", store |-> Rollback(s0, s3), publicationId |-> 0]
     ELSE [thrown |-> "", store |-> s4, publicationId |-> publicationId]

\* The response of the publish handler after the transaction
PublishResponse(r, result) ==
  IF result.thrown = ""
    THEN [op |-> "publish", status |-> 200, request |-> r, error |-> "",
          publicationId |-> result.publicationId,
          isFirstPublish |-> req[r].isFirstPublish,
          diffSummary |-> req[r].diffSummary]
  ELSE IF result.thrown = "VALIDATION_FAILED:MISSING_AXES"
    THEN [op |-> "publish", status |-> 400, request |-> r, error |-> "changed_missing_axes"]
  ELSE IF result.thrown = "VALIDATION_FAILED:MISSING_COVER"
    THEN [op |-> "publish", status |-> 400, request |-> r, error |-> "changed_missing_cover"]
  ELSE [op |-> "publish", status |-> 500, request |-> r, error |-> "failed_to_publish"]

PublishTransaction(r, fault) ==
  /\ req[r].pc = "txn"
  /\ LET result == RunTransaction(r, fault)
     IN /\ book_publications' = result.store.publications
        /\ book' = result.store.book
        /\ events' = result.store.events
        /\ resp' = PublishResponse(r, result)
  /\ req' = [req EXCEPT ![r] = IdleRequest]
  /\ UNCHANGED <<book_axes, book_tags, evidence, nextEvidenceId, book_assets,
                 taxonomy_active, call, communityVars, catalogVars, portalVars>>

\* ------------------------------------------------------------------------
\* GET /books/:id/publish/preview
\* ------------------------------------------------------------------------
\* SELECT t.id::text, t.category, t.slug, t.name FROM book_tags ...
PreviewTagRows ==
  {[id |-> t, category |-> TagTable[t].category, slug |-> TagTable[t].slug,
    name |-> TagTable[t].name] : t \in book_tags}

\* SELECT id::text, evidence_type, quote_text FROM evidence ...
PreviewEvidenceRows == {[id |-> e] : e \in DOMAIN evidence}

\* SELECT version, cdn_urls_json FROM book_assets WHERE ... state = 'ready' ... LIMIT 1
PreviewAssetRows ==
  IF ReadyCoverVersion = 0 THEN <<>> ELSE <<[version |-> ReadyCoverVersion]>>

\* Compute detailed diff
PreviewChanges(previousSnapshot, tags, evidenceRows, assetRows) ==
  LET prevTags == previousSnapshot.tags
      prevTagIds == Ids(prevTags)
      currTagIds == Ids(tags)
      addedTags == {t \in tags : t.id \notin prevTagIds}
      removedTags == {t \in prevTags : t.id \notin currTagIds}
      prevEvidence == previousSnapshot.evidence
      prevEvidenceIds == Ids(prevEvidence)
      currEvidenceIds == Ids(evidenceRows)
      addedEvidence == {e \in evidenceRows : e.id \notin prevEvidenceIds}
      removedEvidence == {e \in prevEvidence : e.id \notin currEvidenceIds}
      coverChanged == CoverVersionOr0(assetRows) # CoverVersionOr0(previousSnapshot.assets.cover)
  IN [tags |-> [added |-> Ids(addedTags), removed |-> Ids(removedTags)],
      evidence |-> [added |-> Ids(addedEvidence), removed |-> Ids(removedEvidence)],
      cover |-> [changed |-> coverChanged],
      has_changes |-> addedTags # {} \/ removedTags # {} \/ addedEvidence # {}
                        \/ removedEvidence # {} \/ coverChanged]

PreviewResponse ==
  LET validation == computeValidation(book_axes, PreviewTagRows, PreviewEvidenceRows,
                                      [cover |-> PreviewAssetRows])
      canPublish == Len(FailedGates(validation)) = 0 /\ Len(HardContradictions(validation)) = 0
      prevId == LatestPublicationId
      changes == IF prevId = 0 THEN <<>>
                 ELSE <<PreviewChanges(book_publications[prevId].snapshot_json,
                                       PreviewTagRows, PreviewEvidenceRows, PreviewAssetRows)>>
  IN [op |-> "preview", status |-> 200, can_publish |-> canPublish,
      gates |-> validation.gates, contradictions |-> validation.contradictions,
      is_republish |-> prevId # 0, previous_publication |-> prevId, changes |-> changes]

\* Variant: the preview records an audit event
PublishPreviewLogged ==
  /\ resp' = PreviewResponse
  /\ events' = LogEvent(events, "PUBLISH_PREVIEWED", "book", 0, <<>>)
  /\ UNCHANGED <<book, book_axes, book_tags, evidence, nextEvidenceId, book_assets,
                 book_publications, taxonomy_active, req, call, communityVars, catalogVars, portalVars>>

PublishPreview ==
  /\ resp' = PreviewResponse
  /\ UNCHANGED <<storeVars, req, call, communityVars, catalogVars, portalVars>>

\* ------------------------------------------------------------------------
\* GET /books/:id/validation
\* ------------------------------------------------------------------------
\* SELECT t.id::text AS id, ..., t.requires_evidence AS "requiresEvidence" ...
ValidationTagRows ==
  {[id |-> t, category |-> TagTable[t].category, slug |-> TagTable[t].slug,
    name |-> TagTable[t].name, requiresEvidence |-> TagTable[t].requires_evidence]
     : t \in book_tags}

\* SELECT e.id, el.target_type AS "targetType", el.target_id AS "targetId"
\* FROM evidence e JOIN evidence_links el ...   (one row per link)
ValidationEvidenceRows ==
  {[id |-> e, targetType |-> l.targetType, targetId |-> l.targetId]
     : <<e, l>> \in {<<e, l>> \in (DOMAIN evidence) \X {TagLink(t) : t \in TagIds}
                       : l \in evidence[e]}}

\* SELECT state FROM book_assets WHERE ... state = 'ready' ... LIMIT 1
ValidationAssetRows ==
  IF ReadyCoverVersion = 0 THEN <<>> ELSE <<[state |-> "ready"]>>

ValidationResponse ==
  LET validation == computeValidation(book_axes, ValidationTagRows, ValidationEvidenceRows,
                                      [cover |-> ValidationAssetRows])
      failed == FailedGates(validation)
      hardErrors == HardContradictions(validation)
      queues ==
        (IF \E i \in 1..Len(failed) : failed[i].id \in {"REQ_AXES", "REQ_COVER"}
           THEN {"unfinished"} ELSE {})
        \cup (IF \E i \in 1..Len(failed) : failed[i].id = "REQ_EVIDENCE"
                THEN {"needs_evidence"} ELSE {})
        \cup (IF Len(hardErrors) > 0 THEN {"contradiction"} ELSE {})
  IN [op |-> "validation", status |-> 200,
      valid |-> Len(failed) + Len(hardErrors) = 0,
      blocking |-> failed, hardErrors |-> hardErrors, queues |-> queues,
      raw |-> validation]

ValidationEndpoint ==
  /\ resp' = ValidationResponse
  /\ UNCHANGED <<storeVars, req, call, communityVars, catalogVars, portalVars>>

\* ------------------------------------------------------------------------
\* Other writers of the shared store (the concurrent modifications that the
\* in-transaction re-check of publish guards against)
\* ------------------------------------------------------------------------
\* a cover asset leaves the 'ready' state
StoreCoverNotReady(v) ==
  /\ v \in 1..Len(book_assets)
  /\ book_assets[v] = "ready"
  /\ book_assets' = [book_assets EXCEPT ![v] = "failed"]
  /\ resp' = NoResponse
  /\ UNCHANGED <<book, book_axes, book_tags, evidence, nextEvidenceId,
                 book_publications, events, taxonomy_active, req, call, communityVars, catalogVars, portalVars>>

\* an axis reference of the book_axes row is cleared
StoreAxisCleared(a) ==
  /\ book_axes[a] # Null
  /\ book_axes' = [book_axes EXCEPT ![a] = Null]
  /\ resp' = NoResponse
  /\ UNCHANGED <<book, book_tags, evidence, nextEvidenceId, book_assets,
                 book_publications, events, taxonomy_active, req, call, communityVars, catalogVars, portalVars>>

\* ------------------------------------------------------------------------
\* Specifications
\* ------------------------------------------------------------------------
Next ==
  \/ \E t \in AttachableTags : AddTag(t)
  \/ \E t \in AttachableTags : RemoveTag(t)
  \/ \E payload \in AxesPayloads : UpdateAxes(payload)
  \/ \E links \in {{}, {TagLink("cw_noncon")}} : CreateEvidence(links)
  \/ \E e \in 1..MaxEvidence : DeleteEvidence(e)
  \/ \E e \in 1..MaxEvidence : LinkEvidence(e, "cw_noncon")
  \/ UploadCover
  \/ \E r \in Requests : PublishBegin(r)
  \/ \E r \in Requests, fault \in StoreFaults : PublishTransaction(r, fault)
  \/ PublishPreview
  \/ ValidationEndpoint

Spec == Init /\ [][Next]_vars

\* The handlers that write what publish reads (axes, cover, tags) and publish
\* itself, together with the other writers of the store
NextStore ==
  \/ \E t \in AttachableTags : AddTag(t)
  \/ \E payload \in AxesPayloads : UpdateAxes(payload)
  \/ UploadCover
  \/ \E r \in Requests : PublishBegin(r)
  \/ \E r \in Requests, fault \in StoreFaults : PublishTransaction(r, fault)
  \/ \E v \in 1..MaxCoverVersions : StoreCoverNotReady(v)
  \/ StoreAxisCleared("pairing")

SpecStore == Init /\ [][NextStore]_vars

\* Publish requests one at a time, and no edit while a request is in flight
NextSequential ==
  \/ /\ InFlight = {}
     /\ \/ \E t \in AttachableTags : AddTag(t)
        \/ \E t \in AttachableTags : RemoveTag(t)
        \/ \E payload \in AxesPayloads : UpdateAxes(payload)
        \/ \E links \in {{}, {TagLink("cw_noncon")}} : CreateEvidence(links)
        \/ \E e \in 1..MaxEvidence : DeleteEvidence(e)
        \/ \E e \in 1..MaxEvidence : LinkEvidence(e, "cw_noncon")
        \/ UploadCover
        \/ PublishBegin("r1")
  \/ \E fault \in StoreFaults : PublishTransaction("r1", fault)

SpecSequential == Init /\ [][NextSequential]_vars

\* ------------------------------------------------------------------------
\* computeValidation called on its own, over every combination of inputs
\* ------------------------------------------------------------------------
AxisTag == [worldFramework |-> "wf_contemporary", pairing |-> "pr_mf", heatLevel |-> "hl_3",
            seriesStatus |-> "ss_standalone", consentMode |-> "cm_dubious"]

\* the axes object: each axis set or null
AxesInputs == {[a \in AxisNames |-> IF a \in S THEN AxisTag[a] ELSE Null] : S \in SUBSET AxisNames}

\* a tag row carrying "requiresEvidence", as the book detail handler selects it
DetailTagRow(t) ==
  [id |-> t, category |-> TagTable[t].category, slug |-> TagTable[t].slug,
   name |-> TagTable[t].name, requiresEvidence |-> TagTable[t].requires_evidence]

TagInputs == SUBSET {DetailTagRow(t) : t \in {"cw_noncon", "cw_death", "tr_enemies"}}

AxisLink(t) == [targetType |-> "axis", targetId |-> t]

\* evidence rows carrying "links", as the book detail handler aggregates them
EvidenceInputs ==
  {A \cup B :
     A \in {{}} \cup {{[id |-> 1, links |-> L]} :
                        L \in {{}, {TagLink("cw_noncon")}, {AxisLink("cw_noncon")}}},
     B \in {{}} \cup {{[id |-> 2, links |-> L]} :
                        L \in {{}, {TagLink("cw_death")},
                               {TagLink("cw_noncon"), TagLink("cw_death")}}}}

\* assets.cover: no row, a ready row, a row in another state
AssetInputs == {<<>>, <<[state |-> "ready"]>>, <<[state |-> "processing"]>>}

InitValidation ==
  /\ book = [status |-> "draft", is_published |-> FALSE,
             last_published_publication_id |-> 0,
             first_published_at |-> 0, last_published_at |-> 0]
  /\ book_axes = [a \in AxisNames |-> Null]
  /\ book_tags = {}
  /\ evidence = <<>>
  /\ nextEvidenceId = 1
  /\ book_assets = <<>>
  /\ book_publications = <<>>
  /\ events = EmptyBag
  /\ taxonomy_active = TRUE
  /\ req = [r \in Requests |-> IdleRequest]
  /\ call \in [fn : {"computeValidation"}, axes : AxesInputs, tags : TagInputs,
               evidence : EvidenceInputs, cover : AssetInputs]
  /\ resp = NoResponse
  /\ InitCommunity
  /\ InitPortal
  /\ EmptyCatalog

CallComputeValidation ==
  /\ call.fn = "computeValidation"
  /\ resp' = [op |-> "computeValidation", status |-> 200,
              result |-> computeValidation(call.axes, call.tags, call.evidence,
                                           [cover |-> call.cover])]
  /\ UNCHANGED <<storeVars, req, call, communityVars, catalogVars, portalVars>>

SpecValidation == InitValidation /\ [][CallComputeValidation]_vars

\* ------------------------------------------------------------------------
\* computeValidation called on consent modes and warnings of every spelling
\* ------------------------------------------------------------------------
\* the axes object with every axis set, or with the consent mode null
ConsentAxesInputs ==
  {[AxisTag EXCEPT !.consentMode = c] :
     c \in {Null, "cm_clear", "cm_clear_explicit", "cm_negotiated", "cm_dubious"}}

WarningTagInputs ==
  SUBSET {DetailTagRow(t) :
            t \in {"cw_noncon", "cw_non_consent", "cw_dubcon", "cw_death", "tr_noncon"}}

InitContradiction ==
  /\ book = [status |-> "draft", is_published |-> FALSE,
             last_published_publication_id |-> 0,
             first_published_at |-> 0, last_published_at |-> 0]
  /\ book_axes = [a \in AxisNames |-> Null]
  /\ book_tags = {}
  /\ evidence = <<>>
  /\ nextEvidenceId = 1
  /\ book_assets = <<>>
  /\ book_publications = <<>>
  /\ events = EmptyBag
  /\ taxonomy_active = TRUE
  /\ req = [r \in Requests |-> IdleRequest]
  /\ call \in [fn : {"computeValidation"}, axes : ConsentAxesInputs, tags : WarningTagInputs,
               evidence : {{}}, cover : AssetInputs]
  /\ resp = NoResponse
  /\ InitCommunity
  /\ InitPortal
  /\ EmptyCatalog

SpecContradiction == InitContradiction /\ [][CallComputeValidation]_vars

\* ========================================================================
\* Properties
\* ========================================================================
\* The gates and the contradiction rule, stated on the book's stored rows
AxesGate == \A a \in AxisNames : book_axes[a] # Null

CoverGate == \E v \in 1..Len(book_assets) : book_assets[v] = "ready"

EvidenceGate ==
  \A t \in book_tags :
    TagTable[t].requires_evidence => \E e \in DOMAIN evidence : TagLink(t) \in evidence[e]

HardContradiction ==
  /\ book_axes["consentMode"] # Null
  /\ TagTable[book_axes["consentMode"]].slug \in ClearConsentSlugs
  /\ \E t \in book_tags :
       TagTable[t].category = "content_warning" /\ TagTable[t].slug \in NonConSlugs

Publishable == AxesGate /\ CoverGate /\ EvidenceGate /\ ~HardContradiction

PublishRefusals == {"validation_failed", "contradictions", "no_active_taxonomy"}

StateChangedErrors == {"changed_missing_axes", "changed_missing_cover"}

\* A step that is the transaction of some publish request
TransactionStep == \E r \in Requests : req[r].pc = "txn" /\ req'[r].pc = "idle"

LatestPublication == book_publications[Len(book_publications)]

\* C1: a book's status changes to published only if, at the moment of the
\* change, all three gates pass and no hard contradiction exists.
C1_PublishedOnlyWhenPublishable ==
  [][(book.status # "published" /\ book'.status = "published") => Publishable]_vars

\* C2: a refused publish leaves the publication rows and the book unchanged;
\* a publish is refused only when a gate fails, a hard contradiction exists or
\* no taxonomy version is active, so a publish made after every gate is
\* satisfied goes through, and a successful one adds exactly one publication row.
C2_RefusedPublishNoEffect ==
  [][/\ (resp'.op = "publish" /\ resp'.error \in PublishRefusals)
          => /\ book_publications' = book_publications
             /\ book' = book
             /\ events' = events
             /\ ~(AxesGate /\ CoverGate /\ EvidenceGate /\ ~HardContradiction
                    /\ taxonomy_active)
     /\ (resp'.op = "publish" /\ resp'.status = 200)
          => /\ Len(book_publications') = Len(book_publications) + 1
             /\ book'.status = "published"]_vars

C2_Witness ==
  /\ resp.op = "publish"
  /\ resp.error = "validation_failed"
  /\ AxesGate /\ ~CoverGate
  /\ book.status = "draft" /\ Len(book_publications) = 0

C5_PublicationsFormOneChain ==
  /\ \A i \in 1..Len(book_publications) :
       book_publications[i].previous_publication_id = i - 1
  /\ book.last_published_publication_id = Len(book_publications)

\* C6: the snapshot stored with a publication describes the book's axes,
\* tags, evidence and cover as they are when the transaction commits.
C6_SnapshotIsStateAtCommit ==
  [][(Len(book_publications') > Len(book_publications))
        => LET snapshot == book_publications'[Len(book_publications')].snapshot_json
           IN /\ snapshot.axes = book_axes
              /\ Ids(snapshot.tags) = book_tags
              /\ Ids(snapshot.evidence) = DOMAIN evidence
              /\ CoverVersionOr0(snapshot.assets.cover) = ReadyCoverVersion]_vars

\* The six fields of a diff, as sets of ids, against a baseline snapshot
DiffIsByMembership(added, removed, evAdded, evRemoved, coverChanged, hasChanges,
                   baseline, tagIds, evidenceIds, coverVersion) ==
  /\ added = tagIds \ Ids(baseline.tags)
  /\ removed = Ids(baseline.tags) \ tagIds
  /\ evAdded = evidenceIds \ Ids(baseline.evidence)
  /\ evRemoved = Ids(baseline.evidence) \ evidenceIds
  /\ coverChanged <=> (coverVersion # CoverVersionOr0(baseline.assets.cover))
  /\ hasChanges <=> (added # {} \/ removed # {} \/ evAdded # {} \/ evRemoved # {} \/ coverChanged)

\* C7: the diff against the most recent publication is by id-set membership,
\* in preview and at publish alike; it is null without a previous publication,
\* and preview and publish report the same counts on the same state.
C7_DiffByIdMembership ==
  /\ resp.op = "preview" =>
       IF Len(book_publications) = 0 THEN resp.changes = <<>>
       ELSE /\ Len(resp.changes) = 1
            /\ LET c == resp.changes[1]
                   d == DiffSummary(LatestPublication.snapshot_json, PublishTagRows,
                                    PublishEvidenceRows, PublishAssetRows)
               IN /\ DiffIsByMembership(c.tags.added, c.tags.removed, c.evidence.added,
                                        c.evidence.removed, c.cover.changed, c.has_changes,
                                        LatestPublication.snapshot_json,
                                        book_tags, DOMAIN evidence, ReadyCoverVersion)
                  /\ d.tags_added = Cardinality(c.tags.added)
                  /\ d.tags_removed = Cardinality(c.tags.removed)
                  /\ d.evidence_added = Cardinality(c.evidence.added)
                  /\ d.evidence_removed = Cardinality(c.evidence.removed)
                  /\ d.cover_changed = c.cover.changed
                  /\ d.has_changes = c.has_changes
  /\ \A r \in Requests :
       req[r].pc = "txn" =>
         IF req[r].previousPublicationId = 0 THEN req[r].diffSummary = <<>>
         ELSE /\ Len(req[r].diffSummary) = 1
              /\ LET d == req[r].diffSummary[1]
                     baseline == book_publications[req[r].previousPublicationId].snapshot_json
                     now == req[r].snapshot
                 IN /\ d.tags_added = Cardinality(Ids(now.tags) \ Ids(baseline.tags))
                    /\ d.tags_removed = Cardinality(Ids(baseline.tags) \ Ids(now.tags))
                    /\ d.evidence_added =
                         Cardinality(Ids(now.evidence) \ Ids(baseline.evidence))
                    /\ d.evidence_removed =
                         Cardinality(Ids(baseline.evidence) \ Ids(now.evidence))
                    /\ d.cover_changed <=> (CoverVersionOr0(now.assets.cover)
                                              # CoverVersionOr0(baseline.assets.cover))
                    /\ d.has_changes <=>
                         (d.tags_added > 0 \/ d.tags_removed > 0 \/ d.evidence_added > 0
                            \/ d.evidence_removed > 0 \/ d.cover_changed)

C7_Witness ==
  /\ resp.op = "preview"
  /\ Len(resp.changes) = 1
  /\ resp.changes[1].tags.added # {}
  /\ resp.changes[1].tags.removed # {}

\* C8: publication rows are created only by a successful publish, one at a
\* time, and an existing row is never changed or deleted.
C8_PublicationsAppendOnly ==
  [][/\ Len(book_publications') >= Len(book_publications)
     /\ SubSeq(book_publications', 1, Len(book_publications)) = book_publications
     /\ Len(book_publications') > Len(book_publications)
          => /\ Len(book_publications') = Len(book_publications) + 1
             /\ resp'.op = "publish"
             /\ resp'.status = 200]_vars

C8_Witness ==
  /\ Len(book_publications) = 2
  /\ resp.op = "publish"
  /\ resp.status = 200
  /\ resp.publicationId = 2

\* C9: publish preview and the validation endpoint write nothing.
C9_PreviewAndValidationWriteNothing ==
  [][(resp'.op \in {"preview", "validation"})
        => /\ book' = book
           /\ book_axes' = book_axes
           /\ book_tags' = book_tags
           /\ evidence' = evidence
           /\ book_assets' = book_assets
           /\ book_publications' = book_publications
           /\ events' = events]_vars

C9_Witness ==
  /\ resp.op = "validation"
  /\ ~resp.valid
  /\ book_tags # {}
  /\ Len(book_publications) > 0

\* The requires-evidence tags of the call with no evidence linked to them as a tag
ExpectedUnevidenced ==
  {t \in call.tags :
     /\ TagTable[t.id].requires_evidence
     /\ ~\E e \in call.evidence : TagLink(t.id) \in e.links}

\* C10: computeValidation reports exactly the expected failing gates: the
\* axes gate fails iff an axis is null and names the null axes, the cover gate
\* fails iff there is no cover in ready state, the evidence gate fails iff a
\* requires-evidence tag has no evidence linked to it as a tag, naming exactly
\* those tags.
C10_GatesAsExpected ==
  resp.op = "computeValidation" =>
    LET gates == resp.result.gates
        failing == {i \in 1..Len(gates) : ~gates[i].ok}
        nullAxes == {a \in AxisNames : call.axes[a] = Null}
        coverReady == Len(call.cover) = 1 /\ call.cover[1].state = "ready"
    IN /\ \A id \in {"REQ_AXES", "REQ_COVER"} :
            Cardinality({i \in 1..Len(gates) : gates[i].id = id}) = 1
       /\ Cardinality({i \in 1..Len(gates) : gates[i].id = "REQ_EVIDENCE"}) <= 1
       /\ {gates[i].id : i \in failing} =
            (IF nullAxes # {} THEN {"REQ_AXES"} ELSE {})
              \cup (IF coverReady THEN {} ELSE {"REQ_COVER"})
              \cup (IF ExpectedUnevidenced # {} THEN {"REQ_EVIDENCE"} ELSE {})
       /\ \A i \in failing :
            /\ gates[i].id = "REQ_AXES" => gates[i].missing = nullAxes
            /\ gates[i].id = "REQ_EVIDENCE"
                 => gates[i].missing = {t.name : t \in ExpectedUnevidenced}

C10_Witness ==
  /\ resp.op = "computeValidation"
  /\ Cardinality(ExpectedUnevidenced) = 1
  /\ Cardinality({t \in call.tags : t.requiresEvidence}) = 2
  /\ \E i \in 1..Len(resp.result.gates) :
       resp.result.gates[i].id = "REQ_EVIDENCE" /\ ~resp.result.gates[i].ok

\* C11: computeValidation yields exactly one contradiction, hard and with
\* ruleId CONSENT_WARNING_MISMATCH, iff the slug of the consent-mode tag is
\* clear-explicit or negotiated and a content-warning tag of the call has one
\* of the five non-consent slugs; otherwise it yields none.
C11_ContradictionIffMismatch ==
  resp.op = "computeValidation" =>
    LET clear == /\ call.axes.consentMode # Null
                 /\ TagTable[call.axes.consentMode].slug \in {"clear-explicit", "negotiated"}
        nonCon == \E t \in call.tags :
                    /\ t.category = "content_warning"
                    /\ t.slug \in {"non-consent", "noncon", "dubious-consent", "dubcon",
                                   "sexual-assault"}
    IN resp.result.contradictions =
         (IF clear /\ nonCon
            THEN <<[ruleId |-> "CONSENT_WARNING_MISMATCH", severity |-> "hard"]>>
            ELSE <<>>)

C11_Witness ==
  /\ resp.op = "computeValidation"
  /\ call.axes.consentMode = "cm_negotiated"
  /\ {t.id : t \in call.tags} = {"cw_noncon", "cw_dubcon"}
  /\ Len(resp.result.contradictions) = 1

\* C12: the queue flags of computeValidation follow its gates: unfinished iff
\* the axes gate or the cover gate fails, needsEvidence iff the evidence gate
\* fails, contradiction iff a hard contradiction is present.
C12_QueuesFollowGates ==
  resp.op = "computeValidation" =>
    LET gates == resp.result.gates
        fails(id) == \E i \in 1..Len(gates) : gates[i].id = id /\ ~gates[i].ok
        q == resp.result.queues
    IN /\ q.unfinished <=> (fails("REQ_AXES") \/ fails("REQ_COVER"))
       /\ q.needsEvidence <=> fails("REQ_EVIDENCE")
       /\ q.contradiction <=>
            \E i \in 1..Len(resp.result.contradictions) :
              resp.result.contradictions[i].severity = "hard"

\* ---------------------------------------------------------------------------
\* Attaching tags: POST /books/:id/tags with its request and full response,
\* and the approvals that attach a tag to the book
\* ---------------------------------------------------------------------------

\* the caps table local to the addTag handler
CAPS == [trope |-> 8, plot_engine |-> 2, setting_wrapper |-> 2, seasonal_wrapper |-> 1]

\* SELECT COUNT(*) of the book's tags in one category
TagCount(tags, category) == Cardinality({x \in tags : TagTable[x].category = category})

AddTagCapExceededWhenAbove(tags, t) ==
  LET category == TagTable[t].category
  IN  /\ category \in DOMAIN CAPS
      /\ TagCount(tags, category) > CAPS[category]

\* the cap check: the category has a cap and the current count reached it
AddTagCapExceeded(tags, t) ==
  LET category == TagTable[t].category
  IN  /\ category \in DOMAIN CAPS
      /\ TagCount(tags, category) >= CAPS[category]

\* the DELETE of the category's tags, run for single-select categories only
DeleteCategoryTags(tags, t) ==
  IF TagTable[t].single_select
  THEN {x \in tags : TagTable[x].category # TagTable[t].category}
  ELSE tags

\* INSERT INTO book_tags ... ON CONFLICT (book_id, tag_id) DO NOTHING
InsertBookTag(tags, t) == tags \cup {t}

CapExceededResponse(t) ==
  [op |-> "addTag", status |-> 400, error |-> "cap_exceeded",
   category |-> TagTable[t].category, cap |-> CAPS[TagTable[t].category]]

AddTagOk(t) ==
  [op |-> "addTag", status |-> 200,
   tag |-> [id |-> t, category |-> TagTable[t].category, name |-> TagTable[t].name]]

\* Tags the tagging specifications attach: a capped category and a
\* single-select one.
TaggingTags == {"pe_suspense", "pe_mystery", "pe_action", "hl_3", "hl_4", "sw_christmas"}

\* POST /books/:id/tags served without interleaving: cap check, single-select
\* delete and insert in the order of the handler.
AddTagRequest(t) ==
  /\ call' = [fn |-> "addTag", tag_id |-> t]
  /\ IF AddTagCapExceeded(book_tags, t)
     THEN /\ resp' = CapExceededResponse(t)
          /\ UNCHANGED book_tags
     ELSE /\ book_tags' = InsertBookTag(DeleteCategoryTags(book_tags, t), t)
          /\ resp' = AddTagOk(t)
  /\ UNCHANGED <<book, book_axes, evidence, nextEvidenceId, book_assets,
                 book_publications, events, taxonomy_active, req, communityVars, catalogVars, portalVars>>

\* The same handler statement by statement, for requests served concurrently:
\* the tag lookup and the cap count,
AddTagCheck(r, t) ==
  /\ req[r].pc = "idle"
  /\ call' = [fn |-> "addTag", tag_id |-> t]
  /\ IF AddTagCapExceeded(book_tags, t)
     THEN /\ resp' = CapExceededResponse(t)
          /\ UNCHANGED req
     ELSE /\ req' = [req EXCEPT ![r] =
                       [pc |-> IF TagTable[t].single_select THEN "addTag_delete"
                                                            ELSE "addTag_insert",
                        tag |-> t]]
          /\ resp' = NoResponse
  /\ UNCHANGED <<storeVars, communityVars, catalogVars, portalVars>>

\* the DELETE of the other tags of a single-select category,
AddTagDelete(r) ==
  /\ req[r].pc = "addTag_delete"
  /\ book_tags' = DeleteCategoryTags(book_tags, req[r].tag)
  /\ req' = [req EXCEPT ![r] = [pc |-> "addTag_insert", tag |-> req[r].tag]]
  /\ resp' = NoResponse
  /\ UNCHANGED <<book, book_axes, evidence, nextEvidenceId, book_assets,
                 book_publications, events, taxonomy_active, call, communityVars, catalogVars, portalVars>>

\* and the INSERT with the response.
AddTagInsert(r) ==
  /\ req[r].pc = "addTag_insert"
  /\ book_tags' = InsertBookTag(book_tags, req[r].tag)
  /\ req' = [req EXCEPT ![r] = IdleRequest]
  /\ resp' = AddTagOk(req[r].tag)
  /\ UNCHANGED <<book, book_axes, evidence, nextEvidenceId, book_assets,
                 book_publications, events, taxonomy_active, call, communityVars, catalogVars, portalVars>>

DecideActions == {"approve", "reject"}

\* POST /proposals/:id/decide
DecideProposal(p, action) ==
  /\ call' = [fn |-> "decideProposal", id |-> p, action |-> action]
  /\ IF action = "reject"
     THEN /\ tag_proposals' = [tag_proposals EXCEPT ![p] = "rejected"]
          /\ resp' = [op |-> "decideProposal", status |-> 200, result |-> "rejected"]
          /\ UNCHANGED book_tags
     ELSE /\ book_tags' = InsertBookTag(book_tags, ProposalTable[p].tag_id)
          /\ tag_proposals' = [tag_proposals EXCEPT ![p] = "approved"]
          /\ resp' = [op |-> "decideProposal", status |-> 200, result |-> "approved"]
  /\ UNCHANGED <<book, book_axes, evidence, nextEvidenceId, book_assets,
                 book_publications, events, taxonomy_active, req,
                 author_tag_submissions, catalogVars, portalVars>>

\* POST /author-submissions/:id/decide
DecideSubmission(x, action) ==
  /\ call' = [fn |-> "decideSubmission", id |-> x, action |-> action]
  /\ IF action = "reject"
     THEN /\ author_tag_submissions' = [author_tag_submissions EXCEPT ![x] = "rejected"]
          /\ resp' = [op |-> "decideSubmission", status |-> 200, result |-> "rejected"]
          /\ UNCHANGED book_tags
     ELSE /\ book_tags' = InsertBookTag(book_tags, SubmissionTable[x].tag_id)
          /\ author_tag_submissions' = [author_tag_submissions EXCEPT ![x] = "approved"]
          /\ resp' = [op |-> "decideSubmission", status |-> 200, result |-> "approved"]
  /\ UNCHANGED <<book, book_axes, evidence, nextEvidenceId, book_assets,
                 book_publications, events, taxonomy_active, req, tag_proposals,
                 catalogVars, portalVars>>

\* Tag attachment with every request served to completion before the next.
NextTagging ==
  \/ \E t \in TaggingTags : AddTagRequest(t)
  \/ \E p \in DOMAIN ProposalTable, action \in DecideActions : DecideProposal(p, action)
  \/ \E x \in DOMAIN SubmissionTable, action \in DecideActions : DecideSubmission(x, action)

SpecTagging == Init /\ [][NextTagging]_vars

\* addTag requests of the curator served concurrently, statement by statement.
NextTaggingConcurrent ==
  \/ \E r \in Requests, t \in TaggingTags : AddTagCheck(r, t)
  \/ \E r \in Requests : AddTagDelete(r)
  \/ \E r \in Requests : AddTagInsert(r)

SpecTaggingConcurrent == Init /\ [][NextTaggingConcurrent]_vars

\* ---------------------------------------------------------------------------
\* Properties of tag attachment
\* ---------------------------------------------------------------------------

\* the step serves a POST /books/:id/tags request to its response
AddTagStep == call'.fn = "addTag" /\ resp'.op = "addTag"

\* C13: addTag for a tag of a capped category (trope 8, plot_engine 2,
\* setting_wrapper 2, seasonal_wrapper 1) succeeds while the book holds fewer
\* than cap tags of that category, and is rejected with a cap-exceeded error
\* naming the category and the cap when the book already holds cap tags; a
\* rejected add leaves the book's tags unchanged.
C13_CapEnforcedOnAdd ==
  [][AddTagStep =>
       LET t        == call'.tag_id
           category == TagTable[t].category
           caps     == [trope |-> 8, plot_engine |-> 2, setting_wrapper |-> 2,
                        seasonal_wrapper |-> 1]
           held     == Cardinality({x \in book_tags : TagTable[x].category = category})
       IN  category \in DOMAIN caps =>
             IF held < caps[category]
             THEN /\ resp'.status = 200
                  /\ t \in book_tags'
             ELSE /\ resp'.status = 400
                  /\ resp'.error = "cap_exceeded"
                  /\ resp'.category = category
                  /\ resp'.cap = caps[category]
                  /\ book_tags' = book_tags]_vars

\* the second plot engine was added, and a third one was refused at the cap
C13_Witness ==
  /\ call.fn = "addTag"
  /\ call.tag_id = "pe_action"
  /\ book_tags = {"pe_suspense", "pe_mystery"}
  /\ resp = [op |-> "addTag", status |-> 400, error |-> "cap_exceeded",
             category |-> "plot_engine", cap |-> 2]

\* C14: after any addTag of a tag in a single-select category, and after any
\* interleaving of concurrent addTag requests for tags of that category on the
\* same book, the book holds exactly one tag in that category (the tag added
\* last), never two.
C14_SingleSelectHoldsOneTag ==
  (InFlight = {} /\ resp.op = "addTag" /\ resp.status = 200
     /\ TagTable[resp.tag.id].single_select)
    => {x \in book_tags : TagTable[x].category = resp.tag.category} = {resp.tag.id}

\* C15: adding a tag that is already attached to the book is a no-op and not
\* an error: for every book state, including a book that already holds cap
\* tags in the tag's category, the request succeeds and the book's tag set is
\* the same as before.
C15_DuplicateAddIsNoOp ==
  [][(AddTagStep /\ call'.tag_id \in book_tags) =>
       /\ resp'.status = 200
       /\ book_tags' = book_tags]_vars

\* C16: after any sequence of non-overlapping operations that attach tags to
\* the book (addTag, tag-proposal approval, author-submission approval), the
\* number of tags the book carries in each capped category never exceeds that
\* category's cap.
C16_CapsNeverExceeded ==
  \A category \in {"trope", "plot_engine", "setting_wrapper", "seasonal_wrapper"} :
    Cardinality({x \in book_tags : TagTable[x].category = category})
      <= [trope |-> 8, plot_engine |-> 2, setting_wrapper |-> 2,
          seasonal_wrapper |-> 1][category]

\* ---------------------------------------------------------------------------
\* Book creation: POST /api/vault/admin/books
\* ---------------------------------------------------------------------------
\* A title or an author name is a sequence of tokens: a word (a run of
\* letters and digits), one blank, or one punctuation character.

Punctuation == {"!", ":", ".", "(", ")"}

IsWord(tok) == tok # " " /\ tok \notin Punctuation

\* String.prototype.toLowerCase / SQL LOWER on a token
LowerToken(tok) ==
  CASE tok = "The"   -> "the"
    [] tok = "A"     -> "a"
    [] tok = "Hunt"  -> "hunt"
    [] tok = "Novel" -> "novel"
    [] tok = "J"     -> "j"
    [] tok = "Doe"   -> "doe"
    [] OTHER         -> tok

toLowerCase(text) == [i \in DOMAIN text |-> LowerToken(text[i])]

RECURSIVE DropBlanks(_)
\* the text without its leading blanks
DropBlanks(text) ==
  IF text # <<>> /\ Head(text) = " " THEN DropBlanks(Tail(text)) ELSE text

RECURSIVE DropTrailingBlanks(_)
DropTrailingBlanks(text) ==
  IF text # <<>> /\ text[Len(text)] = " "
  THEN DropTrailingBlanks(SubSeq(text, 1, Len(text) - 1))
  ELSE text

\* replace(/^(the|a|an)\s+/i, '') and REGEXP_REPLACE(title, '^(the|a|an)\s+', '', 'i')
StripLeadingArticle(text) ==
  IF Len(text) >= 2 /\ LowerToken(text[1]) \in {"the", "a", "an"} /\ text[2] = " "
  THEN DropBlanks(Tail(text))
  ELSE text

RECURSIVE StripParentheticals(_)
\* replace(/\s*\([^)]*\)\s*/g, '')
StripParentheticals(text) ==
  LET opens == {i \in DOMAIN text : text[i] = "(" /\ \E j \in i..Len(text) : text[j] = ")"}
  IN  IF opens = {} THEN text
      ELSE LET i == CHOOSE x \in opens : \A y \in opens : x <= y
               j == CHOOSE x \in i..Len(text) :
                      text[x] = ")" /\ \A y \in i..(x - 1) : text[y] # ")"
           IN  DropTrailingBlanks(SubSeq(text, 1, i - 1))
                 \o StripParentheticals(DropBlanks(SubSeq(text, j + 1, Len(text))))

\* replace(/[^\w\s]/g, '') and REGEXP_REPLACE(text, '[^\w\s]', '', 'g')
StripPunctuation(text) == SelectSeq(text, LAMBDA tok : tok \notin Punctuation)

RECURSIVE CollapseBlanks(_)
\* replace(/\s+/g, ' ')
CollapseBlanks(text) ==
  IF Len(text) < 2 THEN text
  ELSE IF text[1] = " " /\ text[2] = " " THEN CollapseBlanks(Tail(text))
  ELSE <<Head(text)>> \o CollapseBlanks(Tail(text))

\* String.prototype.trim
Trim(text) == DropTrailingBlanks(DropBlanks(text))

normalizeTitle(title) ==
  Trim(CollapseBlanks(StripPunctuation(StripParentheticals(
    StripLeadingArticle(toLowerCase(title))))))

normalizeAuthorName(name) == Trim(CollapseBlanks(StripPunctuation(toLowerCase(name))))

\* LOWER(REGEXP_REPLACE(REGEXP_REPLACE(b.title, '^(the|a|an)\s+', '', 'i'), '[^\w\s]', '', 'g'))
SqlNormalizedTitle(title) == toLowerCase(StripPunctuation(StripLeadingArticle(title)))

\* LOWER(REGEXP_REPLACE(a.name, '[^\w\s]', '', 'g'))
SqlNormalizedName(name) == toLowerCase(StripPunctuation(name))

RECURSIVE Dashed(_)
\* replace(/[^a-z0-9]+/g, "-") on a lower-cased text
Dashed(text) ==
  IF text = <<>> THEN <<>>
  ELSE IF IsWord(Head(text)) THEN <<Head(text)>> \o Dashed(Tail(text))
  ELSE LET rest == Dashed(Tail(text))
       IN  IF rest # <<>> /\ Head(rest) = "-" THEN rest ELSE <<"-">> \o rest

\* replace(/^-|-$/g, "")
TrimDash(text) ==
  LET t == IF text # <<>> /\ Head(text) = "-" THEN Tail(text) ELSE text
  IN  IF t # <<>> /\ t[Len(t)] = "-" THEN SubSeq(t, 1, Len(t) - 1) ELSE t

\* the slug derived from the title (titles of the model are shorter than the
\* 100 characters of slice(0, 100)); 'untitled' when nothing is left
baseSlug(title) ==
  LET slug == TrimDash(Dashed(toLowerCase(title)))
  IN  IF slug = <<>> THEN <<"untitled">> ELSE slug

\* trim().toUpperCase().replace(/\s+/g, '') and the check /^[A-Z0-9]{10}$/
normalizeAsin(asin) ==
  CASE asin = Null          -> Null
    [] asin = "B0ABCDEFGH"  -> "B0ABCDEFGH"
    [] asin = "b0abcdefgh " -> "B0ABCDEFGH"
    [] asin = "B0XYZ"       -> Null

\* LIMIT 5 of the title queries
QueryLimit == 5

\* if (suffix > 100) throw: the last suffix the slug loop tries
MaxSlugSuffix == 100

RECURSIVE RowsInOrder(_)
\* the rows of a query result, listed by id
RowsInOrder(rows) ==
  IF rows = {} THEN <<>>
  ELSE LET first == CHOOSE x \in rows : \A y \in rows : x.id <= y.id
       IN  <<first>> \o RowsInOrder(rows \ {first})

\* the results a query with LIMIT 5 and no ORDER BY can return
Limited(rows) ==
  IF Cardinality(rows) <= QueryLimit THEN {rows}
  ELSE {some \in SUBSET rows : Cardinality(some) = QueryLimit}

\* Tier 1: books whose identifier row carries the ASIN
AsinDupes(asin) ==
  {b \in books : \E bi \in book_identifiers : bi.book_id = b.id /\ bi.asin = asin}

\* Tier 2: normalized title and normalized author name both equal
TitleAuthorDupes(titleNormalized, authorNormalized) ==
  {b \in books :
     /\ SqlNormalizedTitle(b.title) = titleNormalized
     /\ \E ba \in book_authors, a \in authors :
          /\ ba.book_id = b.id
          /\ a.id = ba.author_id
          /\ SqlNormalizedName(a.name) = authorNormalized}

\* Tier 3: LOWER(title) = LOWER(${title})
ExactTitleDupes(title) == {b \in books : toLowerCase(b.title) = toLowerCase(title)}

\* Tier 4: normalized title equal, ids already found excluded
FuzzyTitleDupes(titleNormalized, found) ==
  {b \in books : SqlNormalizedTitle(b.title) = titleNormalized /\ b.id \notin found}

DuplicateIds(duplicates) == {duplicates[i].book_id : i \in DOMAIN duplicates}

\* duplicates.push for the rows not found by an earlier tier
PushDuplicates(duplicates, rows, confidence, reason) ==
  duplicates \o
    [i \in DOMAIN RowsInOrder({b \in rows : b.id \notin DuplicateIds(duplicates)}) |->
       LET d == RowsInOrder({b \in rows : b.id \notin DuplicateIds(duplicates)})[i]
       IN  [book_id |-> d.id, title |-> d.title, status |-> d.status,
            confidence |-> confidence, match_reason |-> reason]]

\* duplicates.map(d => d.book_id).join(','): the one text bound to the
\* parameter inside ARRAY[...]::uuid[], as the list of ids it spells
JoinedIds(duplicates) == [i \in DOMAIN duplicates |-> duplicates[i].book_id]

\* The parameter is the single element of a uuid array, so the store reads the
\* text as one uuid: the empty text and a text of several ids joined by
\* commas are invalid input, and the query raises.
IsUuidText(text) == Len(text) = 1

\* Tier 4 on the duplicates found so far
FuzzyOutcomes(titleNormalized, duplicates) ==
  IF ~IsUuidText(JoinedIds(duplicates))
  THEN {[thrown |-> TRUE, duplicates |-> duplicates]}
  ELSE {[thrown |-> FALSE,
         duplicates |-> PushDuplicates(duplicates, rows, "low", "title_normalized")] :
          rows \in Limited(FuzzyTitleDupes(titleNormalized, DuplicateIds(duplicates)))}

\* The tiered duplicate detection: the outcomes the queries can produce, each
\* the duplicates list, or the list so far with the query error raised.
DetectDuplicates(request) ==
  LET asin             == normalizeAsin(request.asin)
      titleNormalized  == normalizeTitle(request.title)
      authorNormalized == IF request.author_name = <<>> THEN <<>>
                          ELSE normalizeAuthorName(request.author_name)
      tier1 == IF asin # Null
               THEN PushDuplicates(<<>>, AsinDupes(asin), "high", "asin_exact")
               ELSE <<>>
      tier2Results == IF authorNormalized # <<>>
                      THEN Limited(TitleAuthorDupes(titleNormalized, authorNormalized))
                      ELSE {{}}
  IN  UNION {
        UNION { FuzzyOutcomes(titleNormalized,
                  PushDuplicates(
                    PushDuplicates(tier1, rows2, "medium", "title_author_normalized"),
                    rows3, "medium", "title_exact")) :
                rows3 \in Limited(ExactTitleDupes(request.title)) } :
        rows2 \in tier2Results }

\* the message of the error a unique index raises on a second row with the key
DuplicateKeyMessage == "duplicate key value violates unique constraint"

\* Variant: only the slug loop's message is recognised
MessageIncludesSlugMessageOnly(message, word) ==
  <<message, word>> \in {<<"Could not generate unique slug", "unique">>}

\* e.message?.includes(word), on the messages raised in the create block
MessageIncludes(message, word) ==
  <<message, word>> \in {<<"Could not generate unique slug", "unique">>,
                         <<DuplicateKeyMessage, "unique">>,
                         <<DuplicateKeyMessage, "duplicate">>}

\* the catch of the create block
CreateErrorResponse(message) ==
  IF MessageIncludes(message, "unique") \/ MessageIncludes(message, "duplicate")
  THEN [op |-> "createBook", status |-> 409, code |-> "DUPLICATE_ASIN",
        error |-> "A book with this ASIN already exists."]
  ELSE [op |-> "createBook", status |-> 500, code |-> "SERVER_ERROR",
        error |-> "Failed to create book"]

\* `${baseSlug}-${++suffix}` with suffix starting at 1: the base itself, then
\* base-2, base-3, ...
SlugCandidate(base, k) == IF k = 1 THEN base ELSE base \o <<"-", ToString(k)>>

\* Statements of the create block in their order; a store fault names the
\* statement that fails.
CreateSteps ==
  <<"insert_book", "insert_author", "link_author", "insert_identifiers",
    "insert_axes", "insert_metadata", "insert_event">>

CreateFaults == {"none"} \cup {CreateSteps[i] : i \in DOMAIN CreateSteps}

StepIndex(step) == CHOOSE i \in DOMAIN CreateSteps : CreateSteps[i] = step

\* POST /api/vault/admin/books, served without interleaving
CreateBook(request, fault) ==
  /\ call' = [fn |-> "createBook", request |-> request]
  /\ UNCHANGED <<book, book_axes, book_tags, evidence, nextEvidenceId, book_assets,
                 book_publications, taxonomy_active, req, communityVars, portalVars>>
  /\ IF request.asin # Null /\ normalizeAsin(request.asin) = Null
     THEN /\ resp' = [op |-> "createBook", status |-> 400, error |-> "Invalid ASIN format"]
          /\ UNCHANGED <<events, catalogVars, portalVars>>
     ELSE \E outcome \in DetectDuplicates(request) :
       LET duplicates            == outcome.duplicates
           forceCreate           == request.force
           hasHighConfidenceDupe ==
             \E i \in DOMAIN duplicates : duplicates[i].confidence = "high"
           asin                  == normalizeAsin(request.asin)
           slugBase              == baseSlug(request.title)
           free == {k \in 1..MaxSlugSuffix :
                      \A b \in books : b.slug # SlugCandidate(slugBase, k)}
           slug == SlugCandidate(slugBase, CHOOSE k \in free : \A j \in free : k <= j)
           bookId == Cardinality(books) + 1
           authorRows == {a \in authors :
                            SqlNormalizedName(a.name)
                              = normalizeAuthorName(request.author_name)}
           authorCreated == request.author_name # <<>> /\ authorRows = {}
           authorId == IF authorRows = {} THEN Cardinality(authors) + 1
                       ELSE (CHOOSE a \in authorRows : \A o \in authorRows : a.id <= o.id).id
           runs(step) ==
             CASE step = "insert_author"      -> authorCreated
               [] step = "link_author"        -> request.author_name # <<>>
               [] step = "insert_identifiers" -> asin # Null
               [] OTHER                       -> TRUE
           \* idx_book_identifiers_asin_unique: another book's row holds the ASIN
           asinTaken == asin # Null /\ \E x \in book_identifiers : x.asin = asin
           faultFirst == /\ fault # "none" /\ runs(fault)
                         /\ asinTaken => StepIndex(fault) <= StepIndex("insert_identifiers")
           stop == IF faultFirst THEN StepIndex(fault)
                   ELSE IF asinTaken THEN StepIndex("insert_identifiers")
                   ELSE Len(CreateSteps) + 1
           done(step) == runs(step) /\ StepIndex(step) < stop
           eventType == IF forceCreate /\ Len(duplicates) > 0
                        THEN "BOOK_FORCE_CREATED" ELSE "BOOK_CREATED"
           withAuthorEvent ==
             IF done("insert_author")
             THEN LogEvent(events, "AUTHOR_CREATED", "author", authorId,
                           [name |-> request.author_name, created_for_book |-> bookId])
             ELSE events
       IN  IF outcome.thrown
           THEN \* the query error leaves the handler uncaught
                /\ resp' = [op |-> "createBook", status |-> 500, code |-> "UNCAUGHT",
                            error |-> "invalid input syntax for type uuid"]
                /\ UNCHANGED <<events, catalogVars, portalVars>>
           ELSE IF Len(duplicates) > 0 /\ ~forceCreate
           THEN /\ events' = LogEvent(events, "BOOK_DUPLICATE_DETECTED", "book", 0,
                                      [attempted_title |-> request.title,
                                       duplicates |-> duplicates])
                /\ resp' = [op |-> "createBook", status |-> 409, created |-> FALSE,
                            duplicates |-> duplicates]
                /\ UNCHANGED catalogVars
           ELSE IF forceCreate /\ hasHighConfidenceDupe
                     /\ request.force_reason \in {Null, ""}
           THEN /\ resp' = [op |-> "createBook", status |-> 400,
                            error |-> "force_reason is required"]
                /\ UNCHANGED <<events, catalogVars, portalVars>>
           ELSE IF free = {}
           THEN /\ resp' = CreateErrorResponse("Could not generate unique slug")
                /\ UNCHANGED <<events, catalogVars, portalVars>>
           ELSE /\ books' = IF done("insert_book")
                            THEN books \cup {[id |-> bookId, title |-> request.title,
                                              slug |-> slug, status |-> "draft", asin |-> Null]}
                            ELSE books
                /\ authors' = IF done("insert_author")
                              THEN authors \cup {[id |-> authorId,
                                                  name |-> request.author_name]}
                              ELSE authors
                /\ book_authors' = IF done("link_author")
                                   THEN book_authors
                                          \cup {[book_id |-> bookId, author_id |-> authorId]}
                                   ELSE book_authors
                /\ book_identifiers' =
                     IF done("insert_identifiers")
                     THEN book_identifiers
                            \cup {[book_id |-> bookId, asin |-> asin, isbn13 |-> Null]}
                     ELSE book_identifiers
                /\ book_axes_rows' = IF done("insert_axes")
                                     THEN book_axes_rows \cup {bookId}
                                     ELSE book_axes_rows
                /\ book_metadata' = IF done("insert_metadata")
                                    THEN book_metadata \cup {bookId}
                                    ELSE book_metadata
                /\ events' = IF done("insert_event")
                             THEN LogEvent(withAuthorEvent, eventType, "book", bookId,
                                           [title |-> request.title,
                                            author_created |-> authorCreated,
                                            force_reason |-> request.force_reason])
                             ELSE withAuthorEvent
                /\ resp' = IF stop > Len(CreateSteps)
                           THEN [op |-> "createBook", status |-> 200, created |-> TRUE,
                                 book_id |-> bookId, slug |-> slug,
                                 author_created |-> authorCreated,
                                 duplicates_overridden |->
                                   IF forceCreate THEN Len(duplicates) ELSE 0]
                           ELSE CreateErrorResponse(IF faultFirst THEN "store error"
                                                    ELSE DuplicateKeyMessage)

\* ---------------------------------------------------------------------------
\* Catalogs a create request meets, and the requests explored
\* ---------------------------------------------------------------------------
NoAuthor == <<>>

StoredTitles ==
  { <<"Hunt">>, <<"The", " ", "Hunt">>, <<"Hunt", "!">>,
    <<"Hunt", " ", "(", "A", " ", "Novel", ")">> }

\* a catalog whose rows were written by earlier creations: entry i is book i,
\* with its title, its slug, its author name (or none) and its ASIN (or none)
CatalogFrom(entries) ==
  LET withAuthor == {i \in DOMAIN entries : entries[i].author # NoAuthor}
      \* the author row a book links to: the first one with the same normalized name
      authorOf(i) == CHOOSE j \in withAuthor :
                       /\ SqlNormalizedName(entries[j].author)
                            = SqlNormalizedName(entries[i].author)
                       /\ \A k \in withAuthor :
                            SqlNormalizedName(entries[k].author)
                              = SqlNormalizedName(entries[i].author) => j <= k
  IN  [books |-> {[id |-> i, title |-> entries[i].title, slug |-> entries[i].slug,
                   status |-> "draft", asin |-> Null] : i \in DOMAIN entries},
       authors |-> {[id |-> authorOf(i), name |-> entries[authorOf(i)].author] :
                      i \in withAuthor},
       book_authors |-> {[book_id |-> i, author_id |-> authorOf(i)] : i \in withAuthor},
       book_identifiers |-> {[book_id |-> i, asin |-> entries[i].asin, isbn13 |-> Null] :
                               i \in {j \in DOMAIN entries : entries[j].asin # Null}}]

Entry(title, slug, author, asin) ==
  [title |-> title, slug |-> slug, author |-> author, asin |-> asin]

\* the books "Hunt", "Hunt 2", ..., "Hunt n" of a series
SeriesEntries(n) ==
  [i \in 1..n |->
     IF i = 1 THEN Entry(<<"Hunt">>, <<"hunt">>, NoAuthor, Null)
     ELSE Entry(<<"Hunt", " ", ToString(i)>>, <<"hunt", "-", ToString(i)>>, NoAuthor, Null)]

Catalogs ==
  {CatalogFrom(<<>>)}
    \cup {CatalogFrom(<<Entry(title, baseSlug(title), author, asin)>>) :
            title \in StoredTitles,
            author \in {NoAuthor, <<"J", ".", " ", "Doe">>},
            asin \in {Null, "B0ABCDEFGH"}}
    \cup {CatalogFrom(<<Entry(<<"Hunt">>, <<"hunt">>, <<"J", ".", " ", "Doe">>, "B0ABCDEFGH"),
                        Entry(second, baseSlug(second), NoAuthor, Null)>>) :
            second \in {<<"The", " ", "Hunt">>,
                        <<"Hunt", " ", "(", "A", " ", "Novel", ")">>}}
    \cup {CatalogFrom(<<Entry(<<"Hunt">>, <<"hunt">>, NoAuthor, Null),
                        Entry(<<"Hunt", "!">>, <<"hunt", "-", "2">>, NoAuthor, Null),
                        Entry(<<"The", " ", "Hunt">>, <<"the", "-", "hunt">>, NoAuthor, Null)>>)}
    \cup {CatalogFrom(SeriesEntries(n)) : n \in {MaxSlugSuffix - 1, MaxSlugSuffix}}

\* request bodies and the force query parameter
BookRequests ==
  [title        : {<<"Hunt">>, <<"The", " ", "Hunt">>, <<"Hunt", "!">>, <<"Other">>},
   author_name  : {NoAuthor, <<"J", " ", "Doe">>},
   asin         : {Null, "b0abcdefgh ", "B0XYZ"},
   force        : BOOLEAN,
   force_reason : {Null, "", "second edition"}]

InitCreation ==
  /\ book = [status |-> "draft", is_published |-> FALSE,
             last_published_publication_id |-> 0,
             first_published_at |-> 0, last_published_at |-> 0]
  /\ book_axes = [a \in AxisNames |-> Null]
  /\ book_tags = {}
  /\ evidence = <<>>
  /\ nextEvidenceId = 1
  /\ book_assets = <<>>
  /\ book_publications = <<>>
  /\ events = EmptyBag
  /\ taxonomy_active = TRUE
  /\ req = [r \in Requests |-> IdleRequest]
  /\ call = NoCall
  /\ resp = NoResponse
  /\ InitCommunity
  /\ InitPortal
  /\ \E catalog \in Catalogs :
       /\ books = catalog.books
       /\ authors = catalog.authors
       /\ book_authors = catalog.book_authors
       /\ book_identifiers = catalog.book_identifiers
       /\ book_axes_rows = {b.id : b \in catalog.books}
       /\ book_metadata = {b.id : b \in catalog.books}

\* one create request served on the catalog
NextCreation ==
  /\ call = NoCall
  /\ \E request \in BookRequests, fault \in CreateFaults : CreateBook(request, fault)

SpecCreation == InitCreation /\ [][NextCreation]_vars

\* ---------------------------------------------------------------------------
\* Properties of book creation
\* ---------------------------------------------------------------------------

\* the step serves a create request whose ASIN, if given, is well formed
CreateStep ==
  /\ call'.fn = "createBook"
  /\ resp'.op = "createBook"
  /\ ~(call'.request.asin # Null /\ normalizeAsin(call'.request.asin) = Null)

\* the confidence of the highest-priority tier that matches book b, or "none"
MatchConfidence(b, request) ==
  LET titleNormalized == normalizeTitle(request.title)
  IN  IF normalizeAsin(request.asin) # Null /\ b \in AsinDupes(normalizeAsin(request.asin))
      THEN "high"
      ELSE IF \/ /\ request.author_name # NoAuthor
                 /\ b \in TitleAuthorDupes(titleNormalized,
                                           normalizeAuthorName(request.author_name))
              \/ b \in ExactTitleDupes(request.title)
      THEN "medium"
      ELSE IF b \in FuzzyTitleDupes(titleNormalized, {})
      THEN "low"
      ELSE "none"

\* the matched books of the catalog with their confidence
MatchedBooks(request) ==
  {<<b.id, MatchConfidence(b, request)>> :
     b \in {x \in books : MatchConfidence(x, request) # "none"}}

\* the response comes from the create block: the book was created, or the
\* block's catch answered
CreationProceeded(response) ==
  \/ response.status = 200
  \/ "code" \in DOMAIN response /\ response.code \in {"DUPLICATE_ASIN", "SERVER_ERROR"}

\* C17: duplicate detection returns every existing book matched by any tier
\* exactly once, with the confidence of the highest-priority tier that matched
\* it: identifier match gives high, normalized title+author or exact raw title
\* gives medium, and a book matched only by normalized title gives low, never
\* high. (Read off the candidate list of a request without override.)
C17_DuplicatesByHighestTier ==
  [][(CreateStep /\ ~call'.request.force /\ MatchedBooks(call'.request) # {}) =>
       /\ resp'.status = 409
       /\ "duplicates" \in DOMAIN resp'
       /\ {<<resp'.duplicates[i].book_id, resp'.duplicates[i].confidence>> :
             i \in DOMAIN resp'.duplicates} = MatchedBooks(call'.request)
       /\ Len(resp'.duplicates) = Cardinality(MatchedBooks(call'.request))]_vars

\* C18: book creation proceeds iff no duplicate was found, or the caller
\* requested an override and either no high-confidence duplicate exists or a
\* non-empty justification was given; in every other case creation is refused
\* and no book, author, identifier or axes row is written (a refusal without
\* override is logged as one duplicate-detected audit event).
C18_CreationPolicy ==
  [][CreateStep =>
       LET request == call'.request
           matched == MatchedBooks(request)
           high    == \E m \in matched : m[2] = "high"
           allowed == \/ matched = {}
                      \/ /\ request.force
                         /\ ~high \/ request.force_reason \notin {Null, ""}
       IN  /\ CreationProceeded(resp') <=> allowed
           /\ ~allowed =>
                /\ UNCHANGED catalogVars
                /\ IF request.force THEN events' = events
                   ELSE /\ BagCardinality(events') = BagCardinality(events) + 1
                        /\ EventCount(events', "BOOK_DUPLICATE_DETECTED")
                             = EventCount(events, "BOOK_DUPLICATE_DETECTED") + 1]_vars

\* C19: a created book gets a slug no other book has: the title-derived base
\* slug if it is free, otherwise the base slug with a numeric suffix; the
\* number of suffixes tried is bounded, and when every candidate is taken
\* creation fails as an internal error and no book is created.
C19_SlugUniqueOrInternalError ==
  [][(CreateStep /\ CreationProceeded(resp')) =>
       LET base  == baseSlug(call'.request.title)
           taken == {b.slug : b \in books}
       IN  /\ resp'.status = 200 =>
                \E new \in books' :
                  /\ books' = books \cup {new}
                  /\ new.slug = resp'.slug
                  /\ new.slug \notin taken
                  /\ IF base \notin taken THEN new.slug = base
                     ELSE \E k \in 2..100 : new.slug = base \o <<"-", ToString(k)>>
           /\ ({base} \cup {base \o <<"-", ToString(k)>> : k \in 2..100}) \subseteq taken =>
                /\ resp'.status = 500
                /\ books' = books]_vars

\* C20: book creation is one unit of work: if any step after the book row is
\* inserted fails (author link, identifier record, axes or metadata
\* placeholder, audit event), no book row and no reserved slug from that
\* attempt remain in the catalog.
C20_FailedCreationLeavesNoBook ==
  [][(CreateStep /\ CreationProceeded(resp') /\ resp'.status # 200) =>
       /\ books' = books
       /\ {b.slug : b \in books'} = {b.slug : b \in books}]_vars

\* ---------------------------------------------------------------------------
\* Properties of the axes record
\* ---------------------------------------------------------------------------

\* C30: an axes update on a book that already has an axes record changes only
\* the axes for which a non-null tag id is supplied; an axis that is omitted or
\* sent as null keeps its previous value, so an axis that has been set is never
\* unset by any operation.
C30_AxesUpdateKeepsUnsuppliedAxes ==
  [][/\ book_axes' # book_axes =>
          \E payload \in AxesPayloads :
            \A a \in AxisNames :
              book_axes'[a] = IF a \in DOMAIN payload /\ payload[a] # Null
                              THEN payload[a] ELSE book_axes[a]
     /\ \A a \in AxisNames : book_axes[a] # Null => book_axes'[a] # Null]_vars

\* two updates: one sets the consent mode and omits the world framework, one
\* sets the world framework and sends null for the consent mode
C30_Witness ==
  /\ resp.op = "updateAxes"
  /\ EventCount(events, "AXES_UPDATED") = 2
  /\ book_axes.consentMode = "cm_dubious"
  /\ book_axes.worldFramework = "wf_contemporary"
  /\ book_axes.pairing = Null

\* ---------------------------------------------------------------------------
\* The four validation entry points on the same stored state
\* ---------------------------------------------------------------------------
AxisCategories == {"world_framework", "pairing", "heat_level", "series_status", "consent_mode"}

\* GET /books/:id: tags with "requiresEvidence", axis categories left out
DetailTagRows == {DetailTagRow(t) : t \in {x \in book_tags : TagTable[x].category \notin AxisCategories}}

\* GET /books/:id: one row per evidence, its links aggregated in "links"
DetailEvidenceRows == {[id |-> e, links |-> evidence[e]] : e \in DOMAIN evidence}

\* GET /books/:id: the latest cover version, whatever its state
DetailAssetRows ==
  IF Len(book_assets) = 0 THEN <<>> ELSE <<[version |-> Len(book_assets), state |-> book_assets[Len(book_assets)]]>>

DetailValidation ==
  computeValidation(book_axes, DetailTagRows, DetailEvidenceRows, [cover |-> DetailAssetRows])

\* the validation the publish handler runs before its transaction
PrecheckValidation ==
  computeValidation(book_axes, PublishTagRows, PublishEvidenceRows, [cover |-> PublishAssetRows])

Passes(validation) == Len(FailedGates(validation)) = 0 /\ Len(HardContradictions(validation)) = 0

\* C26: for the same stored state the book detail, the validation endpoint,
\* the publish preview and the publish pre-check report the same failing gates
\* and the same contradictions, and valid = can_publish = pre-check passes.
C26_EntryPointsAgree ==
  LET detail == DetailValidation
      endpoint == ValidationResponse
      preview == PreviewResponse
      precheck == PrecheckValidation
  IN /\ FailedGates(detail) = endpoint.blocking
     /\ endpoint.blocking = SelectSeq(preview.gates, LAMBDA g : ~g.ok)
     /\ endpoint.blocking = FailedGates(precheck)
     /\ detail.contradictions = endpoint.raw.contradictions
     /\ endpoint.raw.contradictions = preview.contradictions
     /\ preview.contradictions = precheck.contradictions
     /\ endpoint.valid = preview.can_publish
     /\ preview.can_publish = Passes(precheck)

\* ---------------------------------------------------------------------------
\* PUT /books/:id
\* ---------------------------------------------------------------------------
\* if (d.isPublished !== undefined) UPDATE books SET is_published = ${d.isPublished}
UpdateBook(d) ==
  /\ book' = IF "isPublished" \in DOMAIN d
               THEN [book EXCEPT !.is_published = d.isPublished] ELSE book
  /\ resp' = [op |-> "updateBook", status |-> 200]
  /\ UNCHANGED <<book_axes, book_tags, evidence, nextEvidenceId, book_assets,
                 book_publications, events, taxonomy_active, req, call,
                 communityVars, catalogVars, portalVars>>

\* The curator's handlers one request at a time, the book update among them
NextBookUpdate ==
  \/ NextSequential
  \/ /\ InFlight = {}
     /\ \E isPublished \in BOOLEAN : UpdateBook([isPublished |-> isPublished])

SpecBookUpdate == Init /\ [][NextBookUpdate]_vars

\* C27: only a successful publish marks a book published: no other operation
\* sets status 'published' or is_published true, and no operation returns a
\* published book to draft.
C27_OnlyPublishMarksPublished ==
  [][/\ (\/ book'.status = "published" /\ book.status # "published"
         \/ book'.is_published /\ ~book.is_published)
          => resp'.op = "publish" /\ resp'.status = 200
     /\ book.status = "published" => book'.status = "published"
     /\ book.status = "published" /\ book.is_published => book'.is_published]_vars

\* ---------------------------------------------------------------------------
\* Author portal: POST /api/vault/admin/book-intakes/:id/decide
\* ---------------------------------------------------------------------------
\* the author_book_intakes rows' submitted content: the ASIN, the submitting
\* account and intake_json with its title, five axes and one trope
IntakeTable ==
  [ i1 |-> [asin |-> "B0ABCDEFGH", author_account_id |-> "acc1",
            intake_json |-> [title |-> <<"Hunt">>, axes |-> AxisTag,
                             tropes |-> {[tag_id |-> "tr_enemies"]}]] ]

\* author_portal_accounts: account -> author
author_portal_accounts == [ acc1 |-> [author_id |-> 7] ]

\* DecideIntakeSchema; the requests explored name the slug in book_overrides
IntakeDecisions ==
  [action : DecideActions, admin_notes : {Null, "checked"},
   title : {Null, <<"Hunt", " ", "2">>},
   slug : {<<"hunt">>, <<"the", "-", "hunt">>}]

\* tagIdsToApply: the axes' tag ids and the tag ids of the optional arrays
TagIdsToApply(intakeJson) ==
  {intakeJson.axes[a] : a \in {x \in DOMAIN intakeJson.axes : intakeJson.axes[x] # Null}}
    \cup {t.tag_id : t \in intakeJson.tropes}

\* the SELECT of the intake and the status check
DecideIntakeBegin(r, i, d) ==
  /\ deciding[r].pc = "idle"
  /\ call' = [fn |-> "decideIntake", id |-> i, request |-> d]
  /\ IF author_book_intakes[i].status # "pending"
     THEN /\ resp' = [op |-> "decideIntake", status |-> 400,
                      error |-> <<"Intake already", author_book_intakes[i].status>>]
          /\ UNCHANGED deciding
     ELSE /\ deciding' = [deciding EXCEPT ![r] = [pc |-> "decide_write", id |-> i, request |-> d]]
          /\ resp' = NoResponse
  /\ UNCHANGED <<storeVars, req, communityVars, catalogVars, author_book_intakes,
                 book_tags_rows, RATE_LIMIT, creating>>

\* the reject branch: UPDATE author_book_intakes ... WHERE id = ...
RejectIntake(r) ==
  LET i == deciding[r].id
      d == deciding[r].request
  IN  /\ author_book_intakes' =
           [author_book_intakes EXCEPT ![i] =
              [@ EXCEPT !.status = "rejected",
                        !.admin_notes = IF d.admin_notes = Null THEN "Rejected"
                                        ELSE d.admin_notes]]
      /\ resp' = [op |-> "decideIntake", status |-> 200, result |-> "rejected", book_id |-> 0]
      /\ UNCHANGED <<catalogVars, book_tags_rows>>

\* the approve branch: find the book by books.asin or insert it, link the
\* author, apply the tags, mark the intake approved
ApproveIntake(r) ==
  LET i == deciding[r].id
      d == deciding[r].request
      intake == IntakeTable[i]
      intakeJson == intake.intake_json
      bookTitle == IF d.title # Null THEN d.title ELSE intakeJson.title
      bookSlug == d.slug
      existingBook == {b \in books : b.asin = intake.asin}
      conflicting == {b \in books : b.slug = bookSlug}
      \* INSERT ... ON CONFLICT (slug) DO UPDATE SET title = EXCLUDED.title RETURNING id
      bookId == IF existingBook # {} THEN (CHOOSE b \in existingBook : TRUE).id
                ELSE IF conflicting # {} THEN (CHOOSE b \in conflicting : TRUE).id
                ELSE Cardinality(books) + 1
      authorId == author_portal_accounts[intake.author_account_id].author_id
  IN  /\ books' =
           IF existingBook # {} THEN books
           ELSE IF conflicting # {}
             THEN {IF b.slug = bookSlug THEN [b EXCEPT !.title = bookTitle] ELSE b : b \in books}
           ELSE books \cup {[id |-> bookId, title |-> bookTitle, slug |-> bookSlug,
                             status |-> "draft", asin |-> intake.asin]}
      /\ book_authors' =
           IF existingBook # {} THEN book_authors
           ELSE book_authors \cup {[book_id |-> bookId, author_id |-> authorId]}
      /\ book_tags_rows' =
           book_tags_rows \cup {[book_id |-> bookId, tag_id |-> t] : t \in TagIdsToApply(intakeJson)}
      /\ author_book_intakes' =
           [author_book_intakes EXCEPT ![i] =
              [status |-> "approved", admin_notes |-> d.admin_notes, created_book_id |-> bookId]]
      /\ resp' = [op |-> "decideIntake", status |-> 200, result |-> "approved", book_id |-> bookId]
      /\ UNCHANGED <<authors, book_identifiers, book_axes_rows, book_metadata>>

\* the statements after the status check
DecideIntakeWrite(r) ==
  /\ deciding[r].pc = "decide_write"
  /\ IF deciding[r].request.action = "reject" THEN RejectIntake(r) ELSE ApproveIntake(r)
  /\ deciding' = [deciding EXCEPT ![r] = IdleRequest]
  /\ UNCHANGED <<storeVars, req, call, communityVars, RATE_LIMIT, creating>>

\* UPDATE books SET asin = ... of PUT /books/:id applied to a catalog's book
WithBookAsin(catalog, id, asin) ==
  [catalog EXCEPT !.books = {IF b.id = id THEN [b EXCEPT !.asin = asin] ELSE b : b \in @}]

\* catalogs an intake decision meets
IntakeCatalogs ==
  { CatalogFrom(<<>>),
    CatalogFrom(<<Entry(<<"Hunt">>, <<"hunt">>, NoAuthor, "B0ABCDEFGH")>>),
    CatalogFrom(<<Entry(<<"The", " ", "Hunt">>, <<"the", "-", "hunt">>,
                        <<"J", ".", " ", "Doe">>, Null)>>),
    WithBookAsin(CatalogFrom(<<Entry(<<"Hunt">>, <<"hunt">>, NoAuthor, Null)>>),
                 1, "B0ABCDEFGH") }

InitIntake ==
  /\ book = [status |-> "draft", is_published |-> FALSE,
             last_published_publication_id |-> 0,
             first_published_at |-> 0, last_published_at |-> 0]
  /\ book_axes = [a \in AxisNames |-> Null]
  /\ book_tags = {}
  /\ evidence = <<>>
  /\ nextEvidenceId = 1
  /\ book_assets = <<>>
  /\ book_publications = <<>>
  /\ events = EmptyBag
  /\ taxonomy_active = TRUE
  /\ req = [r \in Requests |-> IdleRequest]
  /\ call = NoCall
  /\ resp = NoResponse
  /\ InitCommunity
  /\ author_book_intakes =
       [i \in DOMAIN IntakeTable |->
          [status |-> "pending", admin_notes |-> Null, created_book_id |-> 0]]
  /\ deciding = [r \in Requests |-> IdleRequest]
  /\ RATE_LIMIT = <<>>
  /\ creating = [r \in Requests |-> IdleRequest]
  /\ \E catalog \in IntakeCatalogs :
       /\ books = catalog.books
       /\ authors = catalog.authors
                      \cup {[id |-> author_portal_accounts[a].author_id, name |-> <<"A">>] :
                              a \in DOMAIN author_portal_accounts}
       /\ book_authors = catalog.book_authors
       /\ book_identifiers = catalog.book_identifiers
       /\ book_axes_rows = {b.id : b \in catalog.books}
       /\ book_metadata = {b.id : b \in catalog.books}
       /\ book_tags_rows = {[book_id |-> b.id, tag_id |-> "cw_death"] : b \in catalog.books}

\* decisions served one at a time
NextIntake ==
  \/ /\ \A r \in Requests : deciding[r].pc = "idle"
     /\ \E i \in DOMAIN IntakeTable, d \in IntakeDecisions : DecideIntakeBegin("r1", i, d)
  \/ DecideIntakeWrite("r1")

SpecIntake == InitIntake /\ [][NextIntake]_vars

\* decisions of two requests interleaved
NextIntakeConcurrent ==
  \/ \E r \in Requests, i \in DOMAIN IntakeTable, d \in IntakeDecisions : DecideIntakeBegin(r, i, d)
  \/ \E r \in Requests : DecideIntakeWrite(r)

SpecIntakeConcurrent == InitIntake /\ [][NextIntakeConcurrent]_vars

\* ---------------------------------------------------------------------------
\* Properties of intake decisions
\* ---------------------------------------------------------------------------
\* the step in which request r runs the statements after the status check
DecideStep(r, action) ==
  /\ deciding[r].pc = "decide_write"
  /\ deciding'[r].pc = "idle"
  /\ deciding[r].request.action = action

\* ids of the books that hold the identifier, in books.asin or book_identifiers
Holders(bookRows, identifierRows, asin) ==
  {b.id : b \in {x \in bookRows : x.asin = asin}}
    \cup {x.book_id : x \in {y \in identifierRows : y.asin = asin}}

\* the book_axes row of a catalog book: creation inserts it empty and the
\* decide handler has no statement on book_axes
AxesRowOf(rows, b) == [a \in AxisNames |-> Null]

\* C22: an intake is decided at most once: once its status is no longer
\* pending, no later or concurrent decide request changes its status, admin
\* notes, created-book id, or the catalog.
C22_IntakeDecidedAtMostOnce ==
  [][\A i \in DOMAIN IntakeTable :
       author_book_intakes[i].status # "pending"
         => /\ author_book_intakes'[i] = author_book_intakes[i]
            /\ UNCHANGED <<catalogVars, book_tags_rows>>]_vars

\* C23: approving a pending intake that carries five axes yields a book with
\* every referenced tag attached, an axes record with all five axes populated,
\* and the intake approved with created_book_id naming that book.
C23_ApprovalAttachesTagsAndAxes ==
  [][DecideStep("r1", "approve") =>
       LET i == deciding["r1"].id
           intakeJson == IntakeTable[i].intake_json
           b == resp'.book_id
       IN  /\ resp'.status = 200
           /\ \A t \in TagIdsToApply(intakeJson) :
                [book_id |-> b, tag_id |-> t] \in book_tags_rows'
           /\ b \in book_axes_rows'
           /\ \A a \in AxisNames :
                /\ intakeJson.axes[a] # Null
                /\ AxesRowOf(book_axes_rows', b)[a] = intakeJson.axes[a]
           /\ author_book_intakes'[i].status = "approved"
           /\ author_book_intakes'[i].created_book_id = b]_vars

\* C24: approval reuses an existing book whenever any book holds the intake's
\* identifier, a book created through admin creation included, and creates a
\* new book only if none does; afterwards at most one book holds it.
C24_ApprovalReusesIdentifierHolder ==
  [][DecideStep("r1", "approve") =>
       LET asin == IntakeTable[deciding["r1"].id].asin
           holders == Holders(books, book_identifiers, asin)
           oldIds == {b.id : b \in books}
       IN  /\ holders # {} => resp'.book_id \in holders /\ {b.id : b \in books'} = oldIds
           /\ holders = {} => resp'.book_id \notin oldIds
           /\ Cardinality(Holders(books', book_identifiers', asin)) <= 1]_vars

\* C25: a successful intake decision, like every listed state-changing action,
\* appends exactly one audit event carrying the acting subject.
C25_DecisionAppendsOneEvent ==
  [][(\E action \in DecideActions : DecideStep("r1", action)) /\ resp'.status = 200
       => \E e \in BagToSet(events') :
            /\ e.actor_id = Curator
            /\ events' = events (+) SetToBag({e})]_vars

\* C28: approving an intake whose identifier matches no existing book never
\* modifies a pre-existing book (title, tags, author links), also when the new
\* book's slug equals an existing book's slug.
C28_ApprovalLeavesOtherBooks ==
  [][DecideStep("r1", "approve")
       /\ Holders(books, book_identifiers, IntakeTable[deciding["r1"].id].asin) = {}
       => LET oldIds == {b.id : b \in books}
          IN  /\ \A b \in books : b \in books'
              /\ {x \in book_tags_rows' : x.book_id \in oldIds} = book_tags_rows
              /\ {x \in book_authors' : x.book_id \in oldIds} = book_authors]_vars

\* ---------------------------------------------------------------------------
\* POST /api/vault/admin/books statement by statement, for requests served
\* concurrently, with the idempotency cache
\* ---------------------------------------------------------------------------
FinishedRequest == [pc |-> "done"]

\* the idempotency lookup, the ASIN check, duplicate detection and the policy
CreateBegin(r, key, request) ==
  /\ creating[r].pc = "idle"
  /\ UNCHANGED <<book, book_axes, book_tags, evidence, nextEvidenceId, book_assets,
                 book_publications, taxonomy_active, req, call, communityVars, catalogVars,
                 author_book_intakes, book_tags_rows, deciding, RATE_LIMIT>>
  /\ IF key # Null /\ key \in DOMAIN RATE_LIMIT
     THEN /\ resp' = RATE_LIMIT[key]
          /\ creating' = [creating EXCEPT ![r] = FinishedRequest]
          /\ UNCHANGED events
     ELSE IF request.asin # Null /\ normalizeAsin(request.asin) = Null
     THEN /\ resp' = [op |-> "createBook", status |-> 400, error |-> "Invalid ASIN format"]
          /\ creating' = [creating EXCEPT ![r] = FinishedRequest]
          /\ UNCHANGED events
     ELSE \E outcome \in DetectDuplicates(request) :
       LET duplicates == outcome.duplicates
           hasHighConfidenceDupe ==
             \E i \in DOMAIN duplicates : duplicates[i].confidence = "high"
       IN  IF outcome.thrown
           THEN /\ resp' = [op |-> "createBook", status |-> 500, code |-> "UNCAUGHT",
                            error |-> "invalid input syntax for type uuid"]
                /\ creating' = [creating EXCEPT ![r] = FinishedRequest]
                /\ UNCHANGED events
           ELSE IF Len(duplicates) > 0 /\ ~request.force
           THEN /\ events' = LogEvent(events, "BOOK_DUPLICATE_DETECTED", "book", 0,
                                      [attempted_title |-> request.title,
                                       duplicates |-> duplicates])
                /\ resp' = [op |-> "createBook", status |-> 409, created |-> FALSE,
                            duplicates |-> duplicates]
                /\ creating' = [creating EXCEPT ![r] = FinishedRequest]
           ELSE IF request.force /\ hasHighConfidenceDupe
                     /\ request.force_reason \in {Null, ""}
           THEN /\ resp' = [op |-> "createBook", status |-> 400,
                            error |-> "force_reason is required"]
                /\ creating' = [creating EXCEPT ![r] = FinishedRequest]
                /\ UNCHANGED events
           ELSE /\ creating' = [creating EXCEPT ![r] =
                                  [pc |-> "create_slug", key |-> key, request |-> request,
                                   duplicates |-> Len(duplicates)]]
                /\ resp' = NoResponse
                /\ UNCHANGED events

\* the loop that makes the slug unique
CreateSlug(r) ==
  /\ creating[r].pc = "create_slug"
  /\ LET slugBase == baseSlug(creating[r].request.title)
         free == {k \in 1..MaxSlugSuffix :
                    \A b \in books : b.slug # SlugCandidate(slugBase, k)}
     IN  IF free = {}
         THEN /\ resp' = CreateErrorResponse("Could not generate unique slug")
              /\ creating' = [creating EXCEPT ![r] = FinishedRequest]
         ELSE /\ resp' = NoResponse
              /\ creating' = [creating EXCEPT ![r] =
                   [pc |-> "create_insert", key |-> creating[r].key,
                    request |-> creating[r].request, duplicates |-> creating[r].duplicates,
                    slug |-> SlugCandidate(slugBase, CHOOSE k \in free : \A j \in free : k <= j)]]
  /\ UNCHANGED <<storeVars, req, call, communityVars, catalogVars,
                 author_book_intakes, book_tags_rows, deciding, RATE_LIMIT>>

\* INSERT INTO books; slug is UNIQUE
CreateInsertBook(r) ==
  /\ creating[r].pc = "create_insert"
  /\ IF \E b \in books : b.slug = creating[r].slug
     THEN /\ resp' = CreateErrorResponse(DuplicateKeyMessage)
          /\ creating' = [creating EXCEPT ![r] = FinishedRequest]
          /\ UNCHANGED books
     ELSE /\ books' = books \cup {[id |-> Cardinality(books) + 1,
                                   title |-> creating[r].request.title,
                                   slug |-> creating[r].slug, status |-> "draft",
                                   asin |-> Null]}
          /\ resp' = NoResponse
          /\ creating' = [creating EXCEPT ![r] =
               [pc |-> "create_rest", key |-> creating[r].key,
                request |-> creating[r].request, duplicates |-> creating[r].duplicates,
                slug |-> creating[r].slug, bookId |-> Cardinality(books) + 1]]
  /\ UNCHANGED <<storeVars, req, call, communityVars, authors, book_authors,
                 book_identifiers, book_axes_rows, book_metadata,
                 author_book_intakes, book_tags_rows, deciding, RATE_LIMIT>>

\* the statements after INSERT INTO books: author, identifiers, axes,
\* metadata, event, the idempotency put and the response
CreateFinish(r) ==
  /\ creating[r].pc = "create_rest"
  /\ LET request == creating[r].request
         key == creating[r].key
         bookId == creating[r].bookId
         asin == normalizeAsin(request.asin)
         authorRows == {a \in authors :
                          SqlNormalizedName(a.name) = normalizeAuthorName(request.author_name)}
         authorCreated == request.author_name # <<>> /\ authorRows = {}
         authorId == IF authorRows = {} THEN Cardinality(authors) + 1
                     ELSE (CHOOSE a \in authorRows : \A o \in authorRows : a.id <= o.id).id
         asinTaken == asin # Null /\ \E x \in book_identifiers : x.asin = asin
         eventType == IF request.force /\ creating[r].duplicates > 0
                      THEN "BOOK_FORCE_CREATED" ELSE "BOOK_CREATED"
         withAuthorEvent ==
           IF authorCreated
           THEN LogEvent(events, "AUTHOR_CREATED", "author", authorId,
                         [name |-> request.author_name, created_for_book |-> bookId])
           ELSE events
         response == [op |-> "createBook", status |-> 200, created |-> TRUE,
                      book_id |-> bookId, slug |-> creating[r].slug,
                      author_created |-> authorCreated,
                      duplicates_overridden |->
                        IF request.force THEN creating[r].duplicates ELSE 0]
     IN  /\ authors' = IF authorCreated
                       THEN authors \cup {[id |-> authorId, name |-> request.author_name]}
                       ELSE authors
         /\ book_authors' = IF request.author_name # <<>>
                            THEN book_authors \cup {[book_id |-> bookId, author_id |-> authorId]}
                            ELSE book_authors
         /\ IF asinTaken
            THEN /\ resp' = CreateErrorResponse(DuplicateKeyMessage)
                 /\ events' = withAuthorEvent
                 /\ UNCHANGED <<book_identifiers, book_axes_rows, book_metadata, RATE_LIMIT>>
            ELSE /\ book_identifiers' =
                      IF asin # Null
                      THEN book_identifiers
                             \cup {[book_id |-> bookId, asin |-> asin, isbn13 |-> Null]}
                      ELSE book_identifiers
                 /\ book_axes_rows' = book_axes_rows \cup {bookId}
                 /\ book_metadata' = book_metadata \cup {bookId}
                 /\ events' = LogEvent(withAuthorEvent, eventType, "book", bookId,
                                       [title |-> request.title,
                                        author_created |-> authorCreated,
                                        force_reason |-> request.force_reason])
                 /\ RATE_LIMIT' = IF key = Null THEN RATE_LIMIT
                                  ELSE [k \in DOMAIN RATE_LIMIT \cup {key} |->
                                          IF k = key THEN response ELSE RATE_LIMIT[k]]
                 /\ resp' = response
  /\ creating' = [creating EXCEPT ![r] = FinishedRequest]
  /\ UNCHANGED <<book, book_axes, book_tags, evidence, nextEvidenceId, book_assets,
                 book_publications, taxonomy_active, req, call, communityVars, books,
                 author_book_intakes, book_tags_rows, deciding>>

\* the catalogs the concurrent requests meet: one book "Hunt", with or without
\* an ASIN of its own
ConcurrentCatalogs ==
  {CatalogFrom(<<Entry(<<"Hunt">>, <<"hunt">>, NoAuthor, asin)>>) : asin \in {Null, "B0OTHER123"}}

\* the requests: each carries the idempotency key "k1"
ConcurrentBookRequests ==
  [title        : {<<"Hunt">>, <<"Other">>},
   author_name  : {NoAuthor, <<"J", " ", "Doe">>},
   asin         : {Null, "b0abcdefgh "},
   force        : BOOLEAN,
   force_reason : {Null, "second edition"}]

InitCreationConcurrent ==
  /\ book = [status |-> "draft", is_published |-> FALSE,
             last_published_publication_id |-> 0,
             first_published_at |-> 0, last_published_at |-> 0]
  /\ book_axes = [a \in AxisNames |-> Null]
  /\ book_tags = {}
  /\ evidence = <<>>
  /\ nextEvidenceId = 1
  /\ book_assets = <<>>
  /\ book_publications = <<>>
  /\ events = EmptyBag
  /\ taxonomy_active = TRUE
  /\ req = [r \in Requests |-> IdleRequest]
  /\ call = NoCall
  /\ resp = NoResponse
  /\ InitCommunity
  /\ InitPortal
  /\ \E catalog \in ConcurrentCatalogs :
       /\ books = catalog.books
       /\ authors = catalog.authors
       /\ book_authors = catalog.book_authors
       /\ book_identifiers = catalog.book_identifiers
       /\ book_axes_rows = {b.id : b \in catalog.books}
       /\ book_metadata = {b.id : b \in catalog.books}

\* two create requests, each served once, their statements interleaved
NextCreationConcurrent ==
  \/ \E r \in Requests, request \in ConcurrentBookRequests : CreateBegin(r, "k1", request)
  \/ \E r \in Requests : CreateSlug(r)
  \/ \E r \in Requests : CreateInsertBook(r)
  \/ \E r \in Requests : CreateFinish(r)

SpecCreationConcurrent == InitCreationConcurrent /\ [][NextCreationConcurrent]_vars

\* ---------------------------------------------------------------------------
\* Properties of concurrent creation
\* ---------------------------------------------------------------------------
\* request r has passed the duplicate check and is answered in this step
AnsweredAfterCheck(r) ==
  /\ creating[r].pc \in {"create_slug", "create_insert", "create_rest"}
  /\ creating'[r].pc = "done"

\* books that were in the catalog before the requests
InitialIds == UNION {{b.id : b \in catalog.books} : catalog \in ConcurrentCatalogs}

\* books the requests created completely (with their axes and metadata rows)
CreatedBooks(bookRows, metadataRows) ==
  {b \in bookRows : b.id \notin InitialIds /\ b.id \in metadataRows}

\* C21: when two concurrent create requests carry the same external identifier
\* and both pass the duplicate check, at most one book ends up holding the
\* identifier, and the losing request is answered as a duplicate conflict, not
\* as a generic server error.
C21_OneHolderAndLoserConflict ==
  [][/\ \A x \in book_identifiers', y \in book_identifiers' :
          x.asin = y.asin => x.book_id = y.book_id
     /\ \A r \in Requests :
          (/\ AnsweredAfterCheck(r)
           /\ \E x \in book_identifiers : x.asin = normalizeAsin(creating[r].request.asin))
            => /\ resp'.status = 409
               /\ resp'.code = "DUPLICATE_ASIN"
               /\ book_identifiers' = book_identifiers]_vars

\* both requests passed the check on the one book "Hunt" and inserted their
\* book; one holds the identifier and the other was answered with the conflict
C21_Witness ==
  /\ \A r \in Requests : creating[r].pc = "done"
  /\ resp.status = 409
  /\ "code" \in DOMAIN resp
  /\ resp.code = "DUPLICATE_ASIN"
  /\ Cardinality({b \in books : b.title = <<"Hunt">>}) = 3
  /\ Cardinality({x \in book_identifiers : x.asin = "B0ABCDEFGH"}) = 1

\* C29: among create requests that carry the same idempotency key, sequential
\* or concurrent, at most one book is created, and every request that arrives
\* after the first success returns that response without writing.
C29_IdempotentCreation ==
  [][/\ Cardinality(CreatedBooks(books', book_metadata')) <= 1
     /\ \A r \in Requests :
          creating[r].pc = "idle" /\ creating'[r].pc # "idle" /\ "k1" \in DOMAIN RATE_LIMIT
            => /\ resp' = RATE_LIMIT["k1"]
               /\ UNCHANGED <<catalogVars, events, RATE_LIMIT>>]_vars
====
